---- MODULE Spec2Model ----
(***************************************************************************)
(* A model of the Zillow property scraper: the retry decorator, the run    *)
(* executor main() with its property store and execution log, the          *)
(* ScraperLogger, the ScraperScheduler and the web application's own       *)
(* scheduler.  Each part has its own specification over the shared state:  *)
(*   SpecRetry   retry_with_backoff around one fallible operation          *)
(*   SpecSched   ScraperScheduler: run_now, timer ticks, run completions   *)
(*   SpecApp     app.py: api_run_scraper, scheduler_worker, background run *)
(*   Spec        get_listing_and_agent.main(): one scraper run             *)
(*   SpecLogger  any sequence of ScraperLogger calls on one logger         *)
(*   SpecAttr    DatabaseManager.add_property on one listing detail        *)
(*   SpecCtl     ScraperScheduler: start, stop, update_config              *)
(*   SpecStatus  ScraperScheduler: get_status next to run_now and runs     *)
(*   SpecNotify  send_messages_to_agents: one campaign                     *)
(*   SpecFetch   process_search_with_retry: the fetch of one configuration *)
(*   SpecTimer   ScraperScheduler: start, stop and the timer loops         *)
(*   SpecPool    main: the executor that fetches the configurations        *)
(***************************************************************************)
EXTENDS Integers, Sequences, FiniteSets, TLC

None == "None"
\* None where the other values are numbers: a null DateTime column, an
\* attribute that holds no Thread
NoTime == 0 - 1
NoThread == 0 - 1

Min(a, b) == IF a <= b THEN a ELSE b

(***************************************************************************)
(* Bounds of the model.                                                    *)
(***************************************************************************)
\* largest max_retries a wrapped operation is decorated with
MaxRetriesBound == 3

\* request threads that call ScraperScheduler.run_now()
NumReq == 2
\* executor threads (threading.Thread objects) one behaviour may create
MaxJobs == 3
\* timer-loop threads one behaviour may create
MaxLoops == 1
\* the last instant of the scheduler's clock
MaxClock == 1

\* background threads api_run_scraper() may create in one behaviour
MaxBg == 2
\* calls of start_scheduler() that start the web application's scheduler
MaxStarts == 2
\* scraper executions the web application counts in one behaviour
MaxRuns == 3

\* search configurations (search terms) in the database
NumTerms == 2
\* properties one search returns at most
MaxProps == 3
\* rows a search term has in the store before the run, if it has any
MaxOld == 1

\* the largest counter a caller passes to the ScraperLogger
MaxCount == 1
\* the last instant at which a caller finalizes the ScraperLogger
MaxLogClock == 3
\* add_property: the number of keys of a listing detail
MaxKeys == 2
\* control calls: their number
MaxCalls == 2
\* start() and stop(): the timer-loop threads one scheduler can create
MaxThreads == 3
\* start() and stop(): the number of calls
MaxTimerCalls == 5
\* the executor of main(): the number of configurations
MaxConfigs == 3

VARIABLES
    rt,         \* retry_with_backoff: the wrapper's locals for one call
    rtTrace,    \* the outcomes of the invocations of func so far
    is_running,        \* ScraperScheduler.is_running
    scheduler_thread,  \* ScraperScheduler.scheduler_thread
    current_job,       \* ScraperScheduler.current_job
    job,               \* each executor thread: unborn, new, alive or dead
    loop,              \* each timer-loop thread: its position and its tick
    rn,                \* each request thread: its position in run_now()
    schedule_jobs,     \* the number of jobs registered with schedule
    dbcfg,             \* the scraper_configs row
    clock,             \* utcnow() of the scheduler process
    scraper_status_data,  \* app.py: the global status dict
    scheduler_running,    \* app.py: the global flag of scheduler_worker
    app_jobs,             \* app.py: the jobs registered with schedule
    worker,               \* app.py: the scheduler_worker thread
    bg,                   \* app.py: the threads of api_run_scraper()
    app_clock,            \* app.py: datetime.now()
    m,          \* main(): its position and its locals
    active,     \* the search_configs rows with is_active
    db,         \* the committed rows of the properties table
    pending,    \* the rows main()'s session has added and not committed
    log,        \* the scraper_logs row of the run
    lclock,     \* utcnow() of the scraper process
    h,          \* what has happened: searches and insertions that failed,
                \* whether a listing was dropped, counts saved, whether a
                \* log write failed, the terms whose fetch gave no record
    ap,         \* add_property(): its position and its locals
    config,     \* ScraperScheduler.config: the row as last loaded
    timer,      \* the jobs registered with schedule, with their intervals
    ctl,        \* the control calls made on the scheduler so far
    gs,         \* the request thread in get_status(): position and result
    nf,         \* send_messages_to_agents(): its position, dicts, results
    fx,         \* process_search_with_retry(): the wrappers and the calls made
    tm,         \* start(), stop(): the flag, the timer loops and the caller
    pl          \* main(): the executor of the fetches and the configured limit

retryVars == <<rt, rtTrace>>
schedVars == <<is_running, scheduler_thread, current_job, job, loop, rn,
               schedule_jobs, dbcfg, clock>>

appVars == <<scraper_status_data, scheduler_running, app_jobs, worker, bg,
             app_clock>>

runVars == <<m, active, db, pending, log, lclock, h>>

attrVars == <<ap>>

ctlVars == <<config, timer, ctl>>

statusVars == <<gs>>

notifyVars == <<nf>>

fetchVars == <<fx>>

timerVars == <<tm>>

poolVars == <<pl>>

\* what each part leaves alone
notRetryVars ==
    <<schedVars, appVars, runVars, attrVars, ctlVars, statusVars,
      notifyVars, fetchVars, timerVars, poolVars>>
notSchedVars ==
    <<retryVars, appVars, runVars, attrVars, ctlVars, statusVars,
      notifyVars, fetchVars, timerVars, poolVars>>
notAppVars ==
    <<retryVars, schedVars, runVars, attrVars, ctlVars, statusVars,
      notifyVars, fetchVars, timerVars, poolVars>>
notRunVars ==
    <<retryVars, schedVars, appVars, attrVars, ctlVars, statusVars,
      notifyVars, fetchVars, timerVars, poolVars>>
notAttrVars ==
    <<retryVars, schedVars, appVars, runVars, ctlVars, statusVars,
      notifyVars, fetchVars, timerVars, poolVars>>
notCtlVars ==
    <<retryVars, appVars, runVars, attrVars, statusVars, notifyVars,
      fetchVars, timerVars, poolVars>>
notStatusVars ==
    <<retryVars, appVars, runVars, attrVars, ctlVars, notifyVars,
      fetchVars, timerVars, poolVars>>
notNotifyVars ==
    <<retryVars, schedVars, appVars, runVars, attrVars, ctlVars,
      statusVars, fetchVars, timerVars, poolVars>>
notFetchVars ==
    <<retryVars, schedVars, appVars, runVars, attrVars, ctlVars,
      statusVars, notifyVars, timerVars, poolVars>>
notTimerVars ==
    <<retryVars, schedVars, appVars, runVars, attrVars, ctlVars,
      statusVars, notifyVars, fetchVars, poolVars>>
notPoolVars ==
    <<retryVars, schedVars, appVars, runVars, attrVars, ctlVars,
      statusVars, notifyVars, fetchVars, timerVars>>

vars == <<rt, rtTrace, is_running, scheduler_thread, current_job, job, loop,
          rn, schedule_jobs, dbcfg, clock, scraper_status_data,
          scheduler_running, app_jobs, worker, bg, app_clock,
          m, active, db, pending, log, lclock, h, ap, config, timer, ctl,
          gs, nf, fx, tm, pl>>

(***************************************************************************)
(* retry_with_backoff (get_listing_and_agent.py).  Delays are in           *)
(* milliseconds; the backoff factor is the fraction fnum/fden.             *)
(***************************************************************************)
Excs == {"ConnectionError", "KeyError"}
Vals == {"result"}

\* RETRY_CONFIG: the two policies the program decorates with
search_retries == 3
property_retries == 2
SearchPolicy == [base_delay |-> 1000, max_delay |-> 60000, fnum |-> 2, fden |-> 1]
PropertyPolicy == [base_delay |-> 500, max_delay |-> 15000, fnum |-> 3, fden |-> 2]

\* wrapper entry: last_exception = None, delay = base_delay, the for loop
\* over range(max_retries + 1) starts (or is empty and line 53 is reached)
RetryStart(max_retries, p) ==
    [max_retries |-> max_retries, base_delay |-> p.base_delay,
     max_delay |-> p.max_delay, fnum |-> p.fnum, fden |-> p.fden,
     attempt |-> 0, delay |-> p.base_delay, sleep_time |-> 0,
     last_exception |-> None,
     state |-> IF 0 < max_retries + 1 THEN "loop" ELSE "tail",
     result |-> None]

\* line 42: the test that ends the retries
RetryExhaustedOffByOne(r) == r.attempt = r.max_retries + 1
RetryExhausted(r) == r.attempt = r.max_retries

\* uniform(0, 0.1 * delay): the ends and the middle of the interval
Jitters(delay) == {0, delay \div 20, delay \div 10}

\* func returned v inside the loop (line 39) or after it (line 53)
RetryOnReturn(r, v) == [r EXCEPT !.state = "returned", !.result = v]

\* func raised e inside the loop: lines 40-51
RetryOnRaise(r, e, jitter) ==
    IF RetryExhausted(r)
    THEN [r EXCEPT !.last_exception = e, !.state = "raised", !.result = e]
    ELSE [r EXCEPT !.last_exception = e,
                   !.sleep_time = Min(r.delay + jitter, r.max_delay),
                   !.delay = Min((r.delay * r.fnum) \div r.fden, r.max_delay),
                   !.state = "sleep"]

\* time.sleep returned: the next iteration of range(max_retries + 1), or the
\* end of the loop and line 53
RetryOnWake(r) ==
    [r EXCEPT !.attempt = r.attempt + 1,
              !.state = IF r.attempt + 1 < r.max_retries + 1 THEN "loop" ELSE "tail"]

RetryInit ==
    /\ \E mr \in -1 .. MaxRetriesBound : \E p \in {SearchPolicy, PropertyPolicy} :
          rt = RetryStart(mr, p)
    /\ rtTrace = <<>>

RetryOff ==
    /\ rt = RetryStart(search_retries, SearchPolicy)
    /\ rtTrace = <<>>

\* one invocation of func inside the loop, and the except clause if it raises
retry_attempt ==
    /\ rt.state = "loop"
    /\ \/ \E v \in Vals :
             /\ rt' = RetryOnReturn(rt, v)
             /\ rtTrace' = Append(rtTrace, <<"ok", v>>)
       \/ \E e \in Excs : \E j \in Jitters(rt.delay) :
             /\ rt' = RetryOnRaise(rt, e, j)
             /\ rtTrace' = Append(rtTrace, <<"exc", e>>)
    /\ UNCHANGED notRetryVars

\* the sleep between two attempts ends
retry_wake ==
    /\ rt.state = "sleep"
    /\ rt' = RetryOnWake(rt)
    /\ UNCHANGED rtTrace
    /\ UNCHANGED notRetryVars

\* line 53: the invocation after the loop, whose exception is not caught
retry_tail ==
    /\ rt.state = "tail"
    /\ \/ \E v \in Vals :
             /\ rt' = RetryOnReturn(rt, v)
             /\ rtTrace' = Append(rtTrace, <<"ok", v>>)
       \/ \E e \in Excs :
             /\ rt' = [rt EXCEPT !.state = "raised", !.result = e]
             /\ rtTrace' = Append(rtTrace, <<"exc", e>>)
    /\ UNCHANGED notRetryVars

NextRetry == retry_attempt \/ retry_wake \/ retry_tail

(***************************************************************************)
(* ScraperScheduler (scraper_scheduler.py).  run_now() runs on request     *)
(* threads, run_scheduled_scraper() on the timer-loop thread inside        *)
(* schedule.run_pending(), _run_scraper_process() on the executor thread   *)
(* each of them creates.  No lock guards current_job, so every attribute   *)
(* read and write is a step of its own.                                    *)
(***************************************************************************)
Req == 1 .. NumReq
JobIds == 1 .. MaxJobs
LoopIds == 1 .. MaxLoops

AliveJobs == {j \in JobIds : job[j] = "alive"}

\* ScraperConfig(): the column defaults of a fresh scraper_configs row
default_schedule_interval_minutes == 10
default_timeout_minutes == 5

\* setup_scheduler(): schedule.clear(), then one job every
\* schedule_interval_minutes and, when next_scheduled_run lies ahead, a
\* second daily job at that time; none when disabled
SetupScheduler(cfg, now) ==
    IF cfg.is_enabled
    THEN IF cfg.next_scheduled_run # NoTime /\ cfg.next_scheduled_run - now > 0
         THEN 2 ELSE 1
    ELSE 0

\* DatabaseManager.schedule_next_run(): the new scraper_configs row
ScheduleNextRun(cfg, now) ==
    IF cfg.is_enabled
    THEN [cfg EXCEPT
            !.next_scheduled_run =
                IF cfg.next_scheduled_run = NoTime THEN now
                ELSE now + cfg.schedule_interval_minutes,
            !.last_scheduled_run = now]
    ELSE cfg

\* `self.current_job and ...`: the first read of current_job; a Thread
\* object is truthy
AfterRead1(cj) == IF cj = NoThread THEN "create" ELSE "read2"

\* `self.current_job.is_alive()`: the second read of current_job and the
\* call on what it holds
AfterRead2(cj) ==
    IF cj = NoThread THEN "AttributeError"
    ELSE IF job[cj] = "alive" THEN "busy" ELSE "create"

\* `self.current_job.start()`: what Thread.start() does to the thread that
\* current_job holds at that moment
StartOutcome(cj) ==
    IF cj = NoThread THEN "AttributeError"
    ELSE IF job[cj] = "new" THEN "started" ELSE "RuntimeError"

\* a thread outside run_now() or run_scheduled_scraper(); inside, quiet tells
\* whether no run of another caller has been in flight since the call, and
\* busy holds the runs that have been in flight ever since the call
\* an executor starts: the calls of the other threads are no longer quiet
Disturbed(calls, self) ==
    [x \in DOMAIN calls |->
        IF x = self THEN calls[x] ELSE [calls[x] EXCEPT !.quiet = FALSE]]

IdleCall == [pc |-> "idle", quiet |-> TRUE, busy |-> {}, result |-> None, started |-> {}]
NoTick(pc) == [pc |-> pc, quiet |-> TRUE, busy |-> {}, started |-> {}]

SchedInit ==
    /\ is_running = FALSE
    /\ scheduler_thread = NoThread
    /\ current_job = NoThread
    /\ job = [j \in JobIds |-> "unborn"]
    /\ loop = [l \in LoopIds |-> NoTick("unborn")]
    /\ rn = [t \in Req |-> IdleCall]
    /\ clock = 0
    /\ \E en \in BOOLEAN : \E nx \in {NoTime, 1} :
          dbcfg = [is_enabled |-> en,
                   schedule_interval_minutes |-> default_schedule_interval_minutes,
                   timeout_minutes |-> default_timeout_minutes,
                   last_scheduled_run |-> NoTime,
                   next_scheduled_run |-> nx]
    /\ schedule_jobs = SetupScheduler(dbcfg, clock)

SchedOff ==
    /\ is_running = FALSE
    /\ scheduler_thread = NoThread
    /\ current_job = NoThread
    /\ job = [j \in JobIds |-> "unborn"]
    /\ loop = [l \in LoopIds |-> NoTick("unborn")]
    /\ rn = [t \in Req |-> IdleCall]
    /\ clock = 0
    /\ dbcfg = [is_enabled |-> TRUE,
                schedule_interval_minutes |-> default_schedule_interval_minutes,
                timeout_minutes |-> default_timeout_minutes,
                last_scheduled_run |-> NoTime,
                next_scheduled_run |-> NoTime]
    /\ schedule_jobs = 0

\* time passes in the scheduler process
time_passes ==
    /\ clock < MaxClock
    /\ clock' = clock + 1
    /\ UNCHANGED <<is_running, scheduler_thread, current_job, job, loop, rn,
                   schedule_jobs, dbcfg>>
    /\ UNCHANGED notSchedVars

\* start(): a no-op when is_running, else a new timer-loop thread
start ==
    /\ IF is_running
       THEN UNCHANGED <<is_running, scheduler_thread, loop>>
       ELSE \E l \in LoopIds :
              /\ loop[l].pc = "unborn"
              /\ \A k \in LoopIds : k < l => loop[k].pc # "unborn"
              /\ is_running' = TRUE
              /\ scheduler_thread' = l
              /\ loop' = [loop EXCEPT ![l].pc = "check"]
    /\ UNCHANGED <<current_job, job, rn, schedule_jobs, dbcfg, clock>>
    /\ UNCHANGED notSchedVars

\* stop(): clears is_running; join(timeout=5) returns whether or not the
\* loop thread has exited
stop ==
    /\ is_running' = FALSE
    /\ UNCHANGED <<scheduler_thread, current_job, job, loop, rn,
                   schedule_jobs, dbcfg, clock>>
    /\ UNCHANGED notSchedVars

\* _run_scheduler(): `while self.is_running`
loop_check(l) ==
    /\ loop[l].pc = "check"
    /\ loop' = [loop EXCEPT ![l].pc = IF is_running THEN "pending" ELSE "exited"]
    /\ UNCHANGED <<is_running, scheduler_thread, current_job, job, rn,
                   schedule_jobs, dbcfg, clock>>
    /\ UNCHANGED notSchedVars

\* schedule.run_pending() finds no job due; time.sleep(1)
loop_sleep(l) ==
    /\ loop[l].pc = "pending"
    /\ loop' = [loop EXCEPT ![l].pc = "check"]
    /\ UNCHANGED <<is_running, scheduler_thread, current_job, job, rn,
                   schedule_jobs, dbcfg, clock>>
    /\ UNCHANGED notSchedVars

\* schedule.run_pending() finds a job due: run_scheduled_scraper() is
\* entered and reads current_job the first time
tick_enter(l) ==
    /\ loop[l].pc = "pending"
    /\ schedule_jobs > 0
    /\ loop' = [loop EXCEPT ![l] = [pc |-> AfterRead1(current_job),
                                    quiet |-> AliveJobs = {},
                                    busy |-> AliveJobs, started |-> {}]]
    /\ UNCHANGED <<is_running, scheduler_thread, current_job, job, rn,
                   schedule_jobs, dbcfg, clock>>
    /\ UNCHANGED notSchedVars

\* run_scheduled_scraper(), line 84, second read: skip when alive; an
\* AttributeError is caught by line 100
tick_alive(l) ==
    /\ loop[l].pc = "read2"
    /\ loop' = [loop EXCEPT ![l].pc =
                  IF AfterRead2(current_job) = "create" THEN "create" ELSE "returned"]
    /\ UNCHANGED <<is_running, scheduler_thread, current_job, job, rn,
                   schedule_jobs, dbcfg, clock>>
    /\ UNCHANGED notSchedVars

\* run_scheduled_scraper(), line 89: current_job = Thread(...)
tick_create(l) ==
    /\ loop[l].pc = "create"
    /\ \E j \in JobIds :
          /\ job[j] = "unborn"
          /\ \A k \in JobIds : k < j => job[k] # "unborn"
          /\ job' = [job EXCEPT ![j] = "new"]
          /\ current_job' = j
    /\ loop' = [loop EXCEPT ![l].pc = "start"]
    /\ UNCHANGED <<is_running, scheduler_thread, rn, schedule_jobs, dbcfg, clock>>
    /\ UNCHANGED notSchedVars

\* run_scheduled_scraper(), line 90: current_job.start(); an exception is
\* caught by line 100 and ends the tick
tick_start(l) ==
    /\ loop[l].pc = "start"
    /\ IF StartOutcome(current_job) = "started"
       THEN /\ job' = [job EXCEPT ![current_job] = "alive"]
            /\ loop' = [Disturbed(loop, l) EXCEPT ![l].pc = "next",
                                                  ![l].started = {current_job}]
            /\ rn' = Disturbed(rn, 0)
       ELSE /\ loop' = [loop EXCEPT ![l].pc = "returned"]
            /\ UNCHANGED <<job, rn>>
    /\ UNCHANGED <<is_running, scheduler_thread, current_job,
                   schedule_jobs, dbcfg, clock>>
    /\ UNCHANGED notSchedVars

\* run_scheduled_scraper(), lines 93-95: schedule_next_run() on the row
tick_next(l) ==
    /\ loop[l].pc = "next"
    /\ dbcfg' = ScheduleNextRun(dbcfg, clock)
    /\ loop' = [loop EXCEPT ![l].pc = "returned"]
    /\ UNCHANGED <<is_running, scheduler_thread, current_job, job, rn,
                   schedule_jobs, clock>>
    /\ UNCHANGED notSchedVars

\* run_scheduled_scraper() has returned to run_pending(); time.sleep(1)
tick_done(l) ==
    /\ loop[l].pc = "returned"
    /\ loop' = [loop EXCEPT ![l] = NoTick("check")]
    /\ UNCHANGED <<is_running, scheduler_thread, current_job, job, rn,
                   schedule_jobs, dbcfg, clock>>
    /\ UNCHANGED notSchedVars

\* run_now() is called and reads current_job the first time
run_now_enter(t) ==
    /\ rn[t].pc = "idle"
    /\ rn' = [rn EXCEPT ![t] = [pc |-> AfterRead1(current_job),
                                quiet |-> AliveJobs = {},
                                busy |-> AliveJobs,
                                result |-> None, started |-> {}]]
    /\ UNCHANGED <<is_running, scheduler_thread, current_job, job, loop,
                   schedule_jobs, dbcfg, clock>>
    /\ UNCHANGED notSchedVars

\* run_now(), line 191, second read: 'Scraper is already running' when
\* alive; an AttributeError is outside the try and leaves run_now()
run_now_alive(t) ==
    /\ rn[t].pc = "read2"
    /\ LET o == AfterRead2(current_job) IN
       rn' = [rn EXCEPT
                ![t].pc = IF o = "create" THEN "create" ELSE "returned",
                ![t].result = IF o = "busy" THEN "already_running"
                              ELSE IF o = "create" THEN None ELSE o]
    /\ UNCHANGED <<is_running, scheduler_thread, current_job, job, loop,
                   schedule_jobs, dbcfg, clock>>
    /\ UNCHANGED notSchedVars

\* run_now(), line 195: current_job = Thread(...)
run_now_create(t) ==
    /\ rn[t].pc = "create"
    /\ \E j \in JobIds :
          /\ job[j] = "unborn"
          /\ \A k \in JobIds : k < j => job[k] # "unborn"
          /\ job' = [job EXCEPT ![j] = "new"]
          /\ current_job' = j
    /\ rn' = [rn EXCEPT ![t].pc = "start"]
    /\ UNCHANGED <<is_running, scheduler_thread, loop, schedule_jobs, dbcfg, clock>>
    /\ UNCHANGED notSchedVars

\* run_now(), lines 196-199: current_job.start() and the result returned
run_now_start(t) ==
    /\ rn[t].pc = "start"
    /\ IF StartOutcome(current_job) = "started"
       THEN /\ job' = [job EXCEPT ![current_job] = "alive"]
            /\ rn' = [Disturbed(rn, t) EXCEPT ![t].pc = "returned",
                                              ![t].result = "success",
                                              ![t].started = {current_job}]
            /\ loop' = Disturbed(loop, 0)
       ELSE /\ rn' = [rn EXCEPT ![t].pc = "returned",
                                ![t].result = "error_starting"]
            /\ UNCHANGED <<job, loop>>
    /\ UNCHANGED <<is_running, scheduler_thread, current_job,
                   schedule_jobs, dbcfg, clock>>
    /\ UNCHANGED notSchedVars

\* the request is answered; the thread serves the next request
run_now_done(t) ==
    /\ rn[t].pc = "returned"
    /\ rn' = [rn EXCEPT ![t] = IdleCall]
    /\ UNCHANGED <<is_running, scheduler_thread, current_job, job, loop,
                   schedule_jobs, dbcfg, clock>>
    /\ UNCHANGED notSchedVars

\* _run_scraper_process(): subprocess.run() ends (exit code 0 or not,
\* TimeoutExpired, another exception); finally: current_job = NoThread, and the
\* thread is over
run_scraper_process_end(j) ==
    /\ job[j] = "alive"
    /\ job' = [job EXCEPT ![j] = "dead"]
    /\ current_job' = NoThread
    /\ rn' = [t \in Req |-> [rn[t] EXCEPT !.busy = rn[t].busy \ {j}]]
    /\ loop' = [l \in LoopIds |-> [loop[l] EXCEPT !.busy = loop[l].busy \ {j}]]
    /\ UNCHANGED <<is_running, scheduler_thread, schedule_jobs, dbcfg, clock>>
    /\ UNCHANGED notSchedVars

NextSched ==
    \/ time_passes
    \/ start
    \/ stop
    \/ \E l \in LoopIds :
          \/ loop_check(l)
          \/ loop_sleep(l)
          \/ tick_enter(l)
          \/ tick_alive(l)
          \/ tick_create(l)
          \/ tick_start(l)
          \/ tick_next(l)
          \/ tick_done(l)
    \/ \E t \in Req :
          \/ run_now_enter(t)
          \/ run_now_alive(t)
          \/ run_now_create(t)
          \/ run_now_start(t)
          \/ run_now_done(t)
    \/ \E j \in JobIds : run_scraper_process_end(j)

(***************************************************************************)
(* The web application's own scheduler (app.py): the global                *)
(* scraper_status_data, scheduler_worker() on its thread, and              *)
(* api_run_scraper() starting run_scraper_background() on a new thread.    *)
(* schedule runs run_scraper_background() on the worker thread itself.     *)
(***************************************************************************)
BgIds == 1 .. MaxBg

\* schedule_next_run() of app.py: the next run is ten minutes from now
app_interval_minutes == 10

\* the executions in flight: the threads inside subprocess.run()
BgInFlight == {b \in BgIds : bg[b] = "exec"}
WorkerInFlight == worker.pc = "exec"

\* run_scraper_background(), lines 38-41
RunBegins(st, now) ==
    [st EXCEPT !.running = TRUE, !.message = "Scraper started",
               !.last_run = now, !.total_runs = st.total_runs + 1]

\* run_scraper_background(), lines 49-65: the result is counted, and
\* finally running is cleared and schedule_next_run() sets next_run
RunEnds(st, outcome, now) ==
    [st EXCEPT
        !.message = IF outcome = "rc0" THEN "Scraper completed successfully"
                    ELSE IF outcome = "rc1" THEN "Scraper failed with error"
                    ELSE "Error running scraper",
        !.successful_runs = IF outcome = "rc0" THEN st.successful_runs + 1
                            ELSE st.successful_runs,
        !.failed_runs = IF outcome = "rc0" THEN st.failed_runs
                        ELSE st.failed_runs + 1,
        !.running = FALSE,
        !.next_run = now + app_interval_minutes]

\* what subprocess.run() in run_scraper_background() ends with
RunOutcomes == {"rc0", "rc1", "exception"}

AppInit ==
    /\ scraper_status_data =
          [running |-> FALSE, message |-> "", last_run |-> NoTime,
           next_run |-> NoTime, total_runs |-> 0, successful_runs |-> 0,
           failed_runs |-> 0]
    /\ scheduler_running = FALSE
    /\ app_jobs = 0
    /\ worker = [pc |-> "unborn", busy |-> {}]
    /\ bg = [b \in BgIds |-> "unborn"]
    /\ app_clock = 0

app_time_passes ==
    /\ app_clock < MaxClock
    /\ app_clock' = app_clock + 1
    /\ UNCHANGED <<scraper_status_data, scheduler_running, app_jobs, worker, bg>>
    /\ UNCHANGED notAppVars

\* api_start_scheduler() and start_scheduler(): one more schedule job every
\* 10 minutes, the worker thread, and schedule_next_run()
app_start_scheduler ==
    /\ IF scheduler_running
       THEN UNCHANGED <<scraper_status_data, scheduler_running, app_jobs, worker>>
       ELSE /\ worker.pc \in {"unborn", "exited"}
            /\ app_jobs < MaxStarts
            /\ app_jobs' = app_jobs + 1
            /\ scheduler_running' = TRUE
            /\ worker' = [pc |-> "check", busy |-> {}]
            /\ scraper_status_data' =
                  [scraper_status_data EXCEPT
                      !.next_run = app_clock + app_interval_minutes]
    /\ UNCHANGED <<bg, app_clock>>
    /\ UNCHANGED notAppVars

\* api_stop_scheduler() and stop_scheduler()
app_stop_scheduler ==
    /\ scheduler_running' = FALSE
    /\ UNCHANGED <<scraper_status_data, app_jobs, worker, bg, app_clock>>
    /\ UNCHANGED notAppVars

\* scheduler_worker(): `while scheduler_running`
worker_check ==
    /\ worker.pc = "check"
    /\ worker' = [worker EXCEPT !.pc = IF scheduler_running THEN "pending"
                                       ELSE "exited"]
    /\ UNCHANGED <<scraper_status_data, scheduler_running, app_jobs, bg, app_clock>>
    /\ UNCHANGED notAppVars

\* schedule.run_pending() has no job due (any more); time.sleep(30)
worker_sleep ==
    /\ worker.pc = "pending"
    /\ worker' = [worker EXCEPT !.pc = "check"]
    /\ UNCHANGED <<scraper_status_data, scheduler_running, app_jobs, bg, app_clock>>
    /\ UNCHANGED notAppVars

\* a timer tick: run_pending() calls run_scraper_background(), which sets
\* running and goes into subprocess.run() on the worker thread
worker_tick ==
    /\ worker.pc = "pending"
    /\ app_jobs > 0
    /\ scraper_status_data.total_runs < MaxRuns
    /\ worker' = [pc |-> "exec", busy |-> BgInFlight]
    /\ scraper_status_data' = RunBegins(scraper_status_data, app_clock)
    /\ UNCHANGED <<scheduler_running, app_jobs, bg, app_clock>>
    /\ UNCHANGED notAppVars

\* the tick's run_scraper_background() ends
worker_run_ends ==
    /\ worker.pc = "exec"
    /\ \E o \in RunOutcomes :
          scraper_status_data' = RunEnds(scraper_status_data, o, app_clock)
    /\ worker' = [pc |-> "pending", busy |-> {}]
    /\ UNCHANGED <<scheduler_running, app_jobs, bg, app_clock>>
    /\ UNCHANGED notAppVars

\* api_run_scraper(): 400 'Scraper is already running' when running is set,
\* else a new thread with target run_scraper_background is started
api_run_scraper ==
    /\ IF scraper_status_data.running
       THEN UNCHANGED bg
       ELSE \E b \in BgIds :
              /\ bg[b] = "unborn"
              /\ \A k \in BgIds : k < b => bg[k] # "unborn"
              /\ bg' = [bg EXCEPT ![b] = "spawned"]
    /\ UNCHANGED <<scraper_status_data, scheduler_running, app_jobs, worker,
                   app_clock>>
    /\ UNCHANGED notAppVars

\* run_scraper_background() on a thread of api_run_scraper(): lines 38-47
bg_run_begins(b) ==
    /\ bg[b] = "spawned"
    /\ scraper_status_data.total_runs < MaxRuns
    /\ bg' = [bg EXCEPT ![b] = "exec"]
    /\ scraper_status_data' = RunBegins(scraper_status_data, app_clock)
    /\ UNCHANGED <<scheduler_running, app_jobs, worker, app_clock>>
    /\ UNCHANGED notAppVars

\* run_scraper_background() on a thread of api_run_scraper(): lines 49-65
bg_run_ends(b) ==
    /\ bg[b] = "exec"
    /\ \E o \in RunOutcomes :
          scraper_status_data' = RunEnds(scraper_status_data, o, app_clock)
    /\ bg' = [bg EXCEPT ![b] = "dead"]
    /\ worker' = [worker EXCEPT !.busy = worker.busy \ {b}]
    /\ UNCHANGED <<scheduler_running, app_jobs, app_clock>>
    /\ UNCHANGED notAppVars

NextApp ==
    \/ app_time_passes
    \/ app_start_scheduler
    \/ app_stop_scheduler
    \/ worker_check
    \/ worker_sleep
    \/ worker_tick
    \/ worker_run_ends
    \/ api_run_scraper
    \/ \E b \in BgIds : bg_run_begins(b) \/ bg_run_ends(b)

(***************************************************************************)
(* The execution log (scraper_logs row) and the ScraperLogger that writes  *)
(* it (scraper_logger.py, database_models.py).                             *)
(***************************************************************************)
Terminal == {"completed", "failed", "cancelled"}

\* no ScraperLogger has been constructed yet: there is no row
NoLog ==
    [status |-> "absent", start_time |-> NoTime, end_time |-> NoTime,
     total_searches |-> 0, successful_searches |-> 0, total_properties |-> 0,
     properties_saved |-> 0, error_message |-> None, error_details |-> None,
     log_file_path |-> None]

\* DatabaseManager.create_scraper_log(): status 'running', start_time now,
\* the counters at their column default 0, the other columns null
CreateScraperLog(now) ==
    [status |-> "running", start_time |-> now, end_time |-> NoTime,
     total_searches |-> 0, successful_searches |-> 0, total_properties |-> 0,
     properties_saved |-> 0, error_message |-> None, error_details |-> None,
     log_file_path |-> None]

\* DatabaseManager.update_scraper_log(): setattr of every key of updates and
\* one commit; an exception is caught, nothing is written, False is returned
UpdateScraperLog(row, updates, ok) ==
    IF ok /\ row.status # "absent"
    THEN [f \in DOMAIN row |-> IF f \in DOMAIN updates THEN updates[f] ELSE row[f]]
    ELSE row

\* ScraperLogger.close(): the log file's path is written to the row
Close(row, ok) == UpdateScraperLog(row, [log_file_path |-> "scraper.log"], ok)

\* ScraperLogger.update_progress(): the four counters
UpdateProgress(row, c, ok) ==
    UpdateScraperLog(row,
        [total_searches |-> c[1], successful_searches |-> c[2],
         total_properties |-> c[3], properties_saved |-> c[4]], ok)

\* ScraperLogger.complete_success(): what it writes before close()
CompleteSuccessNoEndTime(c, now) ==
    [status |-> "completed",
     total_searches |-> c[1], successful_searches |-> c[2],
     total_properties |-> c[3], properties_saved |-> c[4]]
CompleteSuccessUpdates(c, now) ==
    [status |-> "completed", end_time |-> now,
     total_searches |-> c[1], successful_searches |-> c[2],
     total_properties |-> c[3], properties_saved |-> c[4]]

\* ScraperLogger.complete_success(), with its close()
CompleteSuccess(row, c, now, ok, okc) ==
    Close(UpdateScraperLog(row, CompleteSuccessUpdates(c, now), ok), okc)

\* ScraperLogger.complete_failure(), with its close()
CompleteFailureKeepsStatus(row, msg, details, now, ok, okc) ==
    Close(UpdateScraperLog(row,
            [end_time |-> now, error_message |-> msg,
             error_details |-> details], ok), okc)
CompleteFailure(row, msg, details, now, ok, okc) ==
    Close(UpdateScraperLog(row,
            [status |-> "failed", end_time |-> now,
             error_message |-> msg, error_details |-> details], ok), okc)

\* ScraperLogger.cancel(), with its close()
Cancel(row, now, ok, okc) ==
    Close(UpdateScraperLog(row, [status |-> "cancelled", end_time |-> now], ok), okc)

\* the exceptions that reach the handler of main(), line 358
MainExcs == {"EOFError", "OperationalError"}

\* line 359: f"Unexpected error in main function: {str(e)}"
UnexpectedError(e) ==
    IF e = "EOFError" THEN "Unexpected error in main function: EOFError"
    ELSE "Unexpected error in main function: OperationalError"

\* ScraperLogger.__exit__(): complete_failure(str(exc_val)) when an
\* exception leaves the with block, else close()
Exit(row, exc, now, ok, okc) ==
    IF exc # None
    THEN CompleteFailure(row, exc, None, now, ok, okc)
    ELSE Close(row, okc)

(***************************************************************************)
(* The property store: the committed rows of the properties table and the  *)
(* rows the session of main() has added and not committed                  *)
(* (database_models.py).                                                   *)
(***************************************************************************)
Terms == 1 .. NumTerms

OldRow(T, k) == [term |-> T, gen |-> "old", k |-> k]
NewRow(T, k) == [term |-> T, gen |-> "new", k |-> k]

\* get_properties_by_search_term()
RowsOf(rows, T) == {r \in rows : r.term = T}

\* delete_properties_by_search_term(): the rows that remain
DeleteNothing(rows, T) == rows
DeleteByTerm(rows, T) == {r \in rows : r.term # T}

\* the kinds of property dict process_search_config() returns: one that
\* add_property() stores, and one with the key 'Attribution_extra', for
\* which Property(attribution_extra=..., **attribution_fields) raises
\* TypeError
PropKinds == {"ok", "extra"}

RECURSIVE SeqsUpTo(_, _)
SeqsUpTo(S, n) ==
    IF n = 0 THEN {<<>>}
    ELSE LET shorter == SeqsUpTo(S, n - 1) IN
         shorter \cup {Append(s, x) : s \in {q \in shorter : Len(q) = n - 1}, x \in S}

\* what becomes of one summary of a search in process_search_config(): its
\* detail fetch gives a property dict of one of the kinds, or fails for good
\* and the listing is dropped (lines 136-138, 147-152)
ListingOutcomes == PropKinds \cup {"dropped"}

\* what one search can come to: the outcomes of its summaries
FetchResults == SeqsUpTo(ListingOutcomes, MaxProps)

\* properties_data: the property dicts of the listings that were not dropped
PropertiesDataUpToDropped(ls) ==
    IF \E i \in 1 .. Len(ls) : ls[i] = "dropped"
    THEN SubSeq(ls, 1, (CHOOSE i \in 1 .. Len(ls) :
                          /\ ls[i] = "dropped"
                          /\ \A j \in 1 .. i - 1 : ls[j] # "dropped") - 1)
    ELSE ls
PropertiesData(ls) == SelectSeq(ls, LAMBDA x : x # "dropped")

\* the number of the summaries of a search whose detail fetch failed
Lost(ls) == Cardinality({i \in 1 .. Len(ls) : ls[i] = "dropped"})

\* for a search of which exactly one summary was dropped the number of its
\* summaries, else 0
Partial(ls) == IF Lost(ls) = 1 THEN Len(ls) ELSE 0

\* `not properties_data` of save_search_to_database(), line 160, and of
\* main(), line 282
NoRecordsNever(properties_data) == FALSE
NoRecords(properties_data) == properties_data = <<>>

(***************************************************************************)
(* main() of get_listing_and_agent.py: one scraper run.                    *)
(***************************************************************************)
\* successful_searches is kept as the set of its elements: a search value
\* is appended at most once, and only len() of the list is used
MainStart ==
    [pc |-> "start", configs |-> {}, todo |-> {}, cur |-> 0, props |-> <<>>,
     idx |-> 0, saved_count |-> 0, existing |-> FALSE, successful_searches |-> {},
     total_properties_found |-> 0, total_properties_saved |-> 0,
     exc |-> None, partial |-> 0]

\* the locals of one pass of the loop over the futures, back at their
\* values before the first pass
NextPass(mm) ==
    [mm EXCEPT !.pc = "pool", !.todo = mm.todo \ {mm.cur}, !.cur = 0,
               !.props = <<>>, !.idx = 0, !.saved_count = 0, !.existing = FALSE,
               !.partial = 0]

\* what update_scraper_log() returns in a run of main(): the writes of the
\* log go through (a write that fails is part of SpecLogger)
LogWriteOutcomes == {TRUE}

\* the four counters main() hands to the logger
Counters(mm) ==
    <<Cardinality(mm.configs), Cardinality(mm.successful_searches),
      mm.total_properties_found, mm.total_properties_saved>>

RunInit ==
    /\ m = MainStart
    /\ active \in SUBSET Terms
    /\ \E n \in [Terms -> {0, MaxOld}] :
          db = UNION {{OldRow(T, k) : k \in 1 .. n[T]} : T \in Terms}
    /\ pending = {}
    /\ log = NoLog
    /\ lclock = 0
    /\ h = [insert_failed |-> {}, saved_for |-> [T \in Terms |-> 0],
            search_failed |-> {}, dropped |-> FALSE, log_write_failed |-> FALSE,
            no_records |-> {}]

RunOff ==
    /\ m = MainStart
    /\ active = {}
    /\ db = {}
    /\ pending = {}
    /\ log = NoLog
    /\ lclock = 0
    /\ h = [insert_failed |-> {}, saved_for |-> [T \in Terms |-> 0],
            search_failed |-> {}, dropped |-> FALSE, log_write_failed |-> FALSE,
            no_records |-> {}]

\* `with ScraperLogger() as logger`: the row is created
main_start ==
    /\ m.pc = "start"
    /\ log' = CreateScraperLog(lclock)
    /\ lclock' = lclock + 1
    /\ m' = [m EXCEPT !.pc = "load"]
    /\ UNCHANGED <<active, db, pending, h>>
    /\ UNCHANGED notRunVars

\* lines 250-259: load_search_configs() gives the active configurations, or
\* [] after an exception; with none main() returns
main_load ==
    /\ m.pc = "load"
    /\ \E cs \in {active, {}} :
          m' = [m EXCEPT !.configs = cs, !.todo = cs,
                         !.pc = IF cs = {} THEN "exit" ELSE "pool"]
    /\ UNCHANGED <<active, db, pending, log, lclock, h>>
    /\ UNCHANGED notRunVars

\* lines 277-282 and 295-297: the next completed future (as_completed()
\* yields the futures in any order; the initial states treat all terms
\* alike, so the order of the terms stands for every order); its exception (the
\* search failed after its retries) is logged, an empty result is passed
\* over, a non-empty one is counted and handed to save_search_to_database()
main_future(T) ==
    /\ m.pc = "pool"
    /\ T \in m.todo
    /\ \A U \in m.todo : T <= U
    /\ \/ /\ m' = [m EXCEPT !.todo = m.todo \ {T}]
          /\ h' = [h EXCEPT !.search_failed = h.search_failed \cup {T}]
       \/ \E ls \in FetchResults :
             LET ps == PropertiesData(ls) IN
             /\ h' = [h EXCEPT !.dropped = h.dropped \/ Len(ps) < Len(ls),
                               !.no_records = IF Lost(ls) = Len(ls)
                                              THEN @ \cup {T} ELSE @]
             /\ IF NoRecords(ps)
                THEN m' = [m EXCEPT !.todo = m.todo \ {T}]
                ELSE m' = [m EXCEPT !.cur = T, !.props = ps,
                                    !.partial = Partial(ls),
                                    !.total_properties_found =
                                        m.total_properties_found + Len(ps),
                                    !.pc = "save_begin"]
    /\ UNCHANGED <<active, db, pending, log, lclock>>
    /\ UNCHANGED notRunVars

\* save_search_to_database(), lines 160-171: with no properties it
\* returns 0; else the query flushes what the session holds; existing rows
\* are deleted and the delete committed; an SQLAlchemyError is answered by
\* rollback() and return 0
save_begin ==
    /\ m.pc = "save_begin"
    /\ \/ /\ NoRecords(m.props)
          /\ m' = [m EXCEPT !.pc = "after_save", !.saved_count = 0]
          /\ UNCHANGED <<db, pending>>
       \/ /\ ~NoRecords(m.props)
          /\ RowsOf(db, m.cur) = {}
          /\ m' = [m EXCEPT !.pc = "save_add", !.idx = 1, !.saved_count = 0,
                            !.existing = FALSE]
          /\ UNCHANGED <<db, pending>>
       \/ /\ ~NoRecords(m.props)
          /\ RowsOf(db, m.cur) # {}
          /\ db' = DeleteByTerm(db \cup pending, m.cur)
          /\ pending' = {}
          /\ m' = [m EXCEPT !.pc = "save_add", !.idx = 1, !.saved_count = 0,
                            !.existing = TRUE]
       \/ /\ ~NoRecords(m.props)
          /\ pending' = {}
          /\ m' = [m EXCEPT !.pc = "after_save", !.saved_count = 0,
                            !.existing = RowsOf(db, m.cur) # {}]
          /\ UNCHANGED db
    /\ UNCHANGED <<active, log, lclock, h>>
    /\ UNCHANGED notRunVars

\* save_search_to_database(), lines 174-176: add_property() of the next
\* property; its TypeError is no SQLAlchemyError and leaves
\* save_search_to_database() for the handler of main(), line 295
save_add ==
    /\ m.pc = "save_add"
    /\ m.idx <= Len(m.props)
    /\ IF m.props[m.idx] = "ok"
       THEN /\ pending' = pending \cup {NewRow(m.cur, m.idx)}
            /\ m' = [m EXCEPT !.idx = m.idx + 1,
                              !.saved_count = m.saved_count + 1]
            /\ UNCHANGED h
       ELSE /\ m' = NextPass(m)
            /\ h' = [h EXCEPT !.insert_failed = h.insert_failed \cup {m.cur}]
            /\ UNCHANGED pending
    /\ UNCHANGED <<active, db, log, lclock>>
    /\ UNCHANGED notRunVars

\* save_search_to_database(), lines 179-187: commit; an SQLAlchemyError is
\* answered by rollback() and return 0
save_commit ==
    /\ m.pc = "save_add"
    /\ m.idx > Len(m.props)
    /\ \/ /\ db' = db \cup pending
          /\ pending' = {}
          /\ m' = [m EXCEPT !.pc = "after_save"]
          /\ UNCHANGED h
       \/ /\ pending' = {}
          /\ m' = [m EXCEPT !.pc = "after_save", !.saved_count = 0]
          /\ h' = [h EXCEPT !.insert_failed = h.insert_failed \cup {m.cur}]
          /\ UNCHANGED db
    /\ UNCHANGED <<active, log, lclock>>
    /\ UNCHANGED notRunVars

\* lines 283-294: save_search_to_database() has returned saved_count; the
\* totals and update_progress()
main_after_save ==
    /\ m.pc = "after_save"
    /\ LET mm == IF m.saved_count > 0
                 THEN [m EXCEPT !.successful_searches =
                                     m.successful_searches \cup {m.cur},
                                !.total_properties_saved =
                                     m.total_properties_saved + m.saved_count]
                 ELSE m
       IN /\ m' = NextPass(mm)
          /\ \E ok \in LogWriteOutcomes :
                /\ log' = UpdateProgress(log, Counters(mm), ok)
                /\ h' = [h EXCEPT !.saved_for[m.cur] = m.saved_count,
                                  !.log_write_failed = h.log_write_failed \/ ~ok]
    /\ UNCHANGED <<active, db, pending, lclock>>
    /\ UNCHANGED notRunVars

\* lines 299-331: every future is handled; with a successful search the
\* summary queries the store (which flushes what the session holds) and
\* asks input() whether to export: it returns, raises EOFError, or blocks
main_summary ==
    /\ m.pc = "pool"
    /\ m.todo = {}
    /\ IF m.successful_searches = {}
       THEN m' = [m EXCEPT !.pc = "close_db"]
       ELSE \/ m' = [m EXCEPT !.pc = "close_db"]
            \/ m' = [m EXCEPT !.pc = "except", !.exc = "EOFError"]
            \/ m' = [m EXCEPT !.pc = "blocked"]
            \/ /\ pending # {}
               /\ m' = [m EXCEPT !.pc = "except", !.exc = "OperationalError"]
    /\ UNCHANGED <<active, db, pending, log, lclock, h>>
    /\ UNCHANGED notRunVars

\* line 345: db_manager.close() drops what the session holds
main_close_db ==
    /\ m.pc = "close_db"
    /\ pending' = {}
    /\ m' = [m EXCEPT !.pc = "complete"]
    /\ UNCHANGED <<active, db, log, lclock, h>>
    /\ UNCHANGED notRunVars

\* lines 349-354: logger.complete_success()
main_complete_success ==
    /\ m.pc = "complete"
    /\ \E ok \in LogWriteOutcomes, okc \in LogWriteOutcomes :
          /\ log' = CompleteSuccess(log, Counters(m), lclock, ok, okc)
          /\ h' = [h EXCEPT !.log_write_failed = h.log_write_failed \/ ~ok \/ ~okc]
    /\ lclock' = lclock + 1
    /\ m' = [m EXCEPT !.pc = "exit"]
    /\ UNCHANGED <<active, db, pending>>
    /\ UNCHANGED notRunVars

\* lines 358-360: logger.complete_failure(...) and raise
main_except ==
    /\ m.pc = "except"
    /\ \E ok \in LogWriteOutcomes, okc \in LogWriteOutcomes :
          /\ log' = CompleteFailure(log, UnexpectedError(m.exc), None, lclock, ok, okc)
          /\ h' = [h EXCEPT !.log_write_failed = h.log_write_failed \/ ~ok \/ ~okc]
    /\ lclock' = lclock + 1
    /\ m' = [m EXCEPT !.pc = "exit"]
    /\ UNCHANGED <<active, db, pending>>
    /\ UNCHANGED notRunVars

\* the with block is left: ScraperLogger.__exit__(), then main() has
\* returned or the exception goes on to its caller
main_exit ==
    /\ m.pc = "exit"
    /\ \E ok \in LogWriteOutcomes, okc \in LogWriteOutcomes :
          /\ log' = Exit(log, m.exc, lclock, ok, okc)
          /\ h' = [h EXCEPT !.log_write_failed =
                       h.log_write_failed \/ ~okc \/ (m.exc # None /\ ~ok)]
    /\ lclock' = IF m.exc # None THEN lclock + 1 ELSE lclock
    /\ m' = [m EXCEPT !.pc = IF m.exc # None THEN "raised" ELSE "done"]
    /\ UNCHANGED <<active, db, pending>>
    /\ UNCHANGED notRunVars

\* _run_scraper_process(), lines 107-112 and 119: subprocess.run() kills the
\* scraper process when timeout_minutes are over
main_killed ==
    /\ m.pc \notin {"start", "done", "raised", "killed"}
    /\ m' = [MainStart EXCEPT !.pc = "killed"]
    /\ pending' = {}
    /\ UNCHANGED <<active, db, log, lclock, h>>
    /\ UNCHANGED notRunVars

NextRun ==
    \/ main_start
    \/ main_load
    \/ \E T \in Terms : main_future(T)
    \/ save_begin
    \/ save_add
    \/ save_commit
    \/ main_after_save
    \/ main_summary
    \/ main_close_db
    \/ main_complete_success
    \/ main_except
    \/ main_exit
    \/ main_killed

(***************************************************************************)
(* The ScraperLogger on its own: a caller may make any sequence of calls   *)
(* on one logger (scraper_logger.py).                                      *)
(***************************************************************************)
\* the counters a caller passes: searches, the successful ones among them,
\* properties found, the saved ones among them
CounterArgs ==
    {c \in (0 .. MaxCount) \X (0 .. MaxCount) \X (0 .. MaxCount) \X (0 .. MaxCount) :
        c[2] <= c[1] /\ c[4] <= c[3]}
ErrorMessages == MainExcs \cup {UnexpectedError(e) : e \in MainExcs}
ErrorDetails == {None, "Traceback"}

\* ScraperLogger.__init__()
logger_init ==
    /\ log.status = "absent"
    /\ log' = CreateScraperLog(lclock)
    /\ lclock' = lclock + 1
    /\ UNCHANGED <<m, active, db, pending, h>>
    /\ UNCHANGED notRunVars

update_progress ==
    /\ log.status # "absent"
    /\ \E c \in CounterArgs, ok \in BOOLEAN :
          /\ log' = UpdateProgress(log, c, ok)
          /\ h' = [h EXCEPT !.log_write_failed = h.log_write_failed \/ ~ok]
    /\ UNCHANGED <<m, active, db, pending, lclock>>
    /\ UNCHANGED notRunVars

complete_success ==
    /\ log.status # "absent"
    /\ lclock < MaxLogClock
    /\ \E c \in CounterArgs, ok \in BOOLEAN, okc \in BOOLEAN :
          /\ log' = CompleteSuccess(log, c, lclock, ok, okc)
          /\ h' = [h EXCEPT !.log_write_failed = h.log_write_failed \/ ~ok \/ ~okc]
    /\ lclock' = lclock + 1
    /\ UNCHANGED <<m, active, db, pending>>
    /\ UNCHANGED notRunVars

complete_failure ==
    /\ log.status # "absent"
    /\ lclock < MaxLogClock
    /\ \E msg \in ErrorMessages, details \in ErrorDetails,
          ok \in BOOLEAN, okc \in BOOLEAN :
          /\ log' = CompleteFailure(log, msg, details, lclock, ok, okc)
          /\ h' = [h EXCEPT !.log_write_failed = h.log_write_failed \/ ~ok \/ ~okc]
    /\ lclock' = lclock + 1
    /\ UNCHANGED <<m, active, db, pending>>
    /\ UNCHANGED notRunVars

cancel ==
    /\ log.status # "absent"
    /\ lclock < MaxLogClock
    /\ \E ok \in BOOLEAN, okc \in BOOLEAN :
          /\ log' = Cancel(log, lclock, ok, okc)
          /\ h' = [h EXCEPT !.log_write_failed = h.log_write_failed \/ ~ok \/ ~okc]
    /\ lclock' = lclock + 1
    /\ UNCHANGED <<m, active, db, pending>>
    /\ UNCHANGED notRunVars

close ==
    /\ log.status # "absent"
    /\ \E okc \in BOOLEAN :
          /\ log' = Close(log, okc)
          /\ h' = [h EXCEPT !.log_write_failed = h.log_write_failed \/ ~okc]
    /\ UNCHANGED <<m, active, db, pending, lclock>>
    /\ UNCHANGED notRunVars

NextLogger ==
    \/ logger_init
    \/ update_progress
    \/ complete_success
    \/ complete_failure
    \/ cancel
    \/ close

(***************************************************************************)
(* DatabaseManager.add_property (database_models.py): the mapping of the   *)
(* 'Attribution_<k>' keys of a listing detail to the attribution_* columns *)
(* of the properties row and to its attribution_extra map.  A name is the  *)
(* sequence of its characters.                                             *)
(***************************************************************************)
\* [A-Z] and str.lower() on it
LowerOf ==
    [c \in {"A", "B", "C", "D", "E", "F", "G", "H", "I", "J", "K", "L", "M",
            "N", "O", "P", "Q", "R", "S", "T", "U", "V", "W", "X", "Y", "Z"} |->
        CASE c = "A" -> "a" [] c = "B" -> "b" [] c = "C" -> "c" [] c = "D" -> "d"
          [] c = "E" -> "e" [] c = "F" -> "f" [] c = "G" -> "g" [] c = "H" -> "h"
          [] c = "I" -> "i" [] c = "J" -> "j" [] c = "K" -> "k" [] c = "L" -> "l"
          [] c = "M" -> "m" [] c = "N" -> "n" [] c = "O" -> "o" [] c = "P" -> "p"
          [] c = "Q" -> "q" [] c = "R" -> "r" [] c = "S" -> "s" [] c = "T" -> "t"
          [] c = "U" -> "u" [] c = "V" -> "v" [] c = "W" -> "w" [] c = "X" -> "x"
          [] c = "Y" -> "y" [] c = "Z" -> "z"]

IsUpper(c) == c \in DOMAIN LowerOf

\* str.lower()
Lower(s) == [i \in 1 .. Len(s) |-> IF IsUpper(s[i]) THEN LowerOf[s[i]] ELSE s[i]]

\* str.startswith(p)
StartsWith(s, p) == Len(s) >= Len(p) /\ SubSeq(s, 1, Len(p)) = p

\* str.replace(p, ''): every occurrence of p is removed, left to right
RECURSIVE Remove(_, _)
Remove(s, p) ==
    IF Len(s) < Len(p) \/ Len(p) = 0 THEN s
    ELSE IF StartsWith(s, p) THEN Remove(SubSeq(s, Len(p) + 1, Len(s)), p)
    ELSE <<Head(s)>> \o Remove(Tail(s), p)

\* re.sub('([A-Z]+)', r'_\1', s): an underscore before every maximal run of
\* capitals, from position i on
RECURSIVE UnderscoreCapitals(_, _)
UnderscoreCapitals(s, i) ==
    IF i > Len(s) THEN << >>
    ELSE (IF IsUpper(s[i]) /\ (i = 1 \/ ~IsUpper(s[i - 1]))
          THEN <<"_", s[i]>> ELSE <<s[i]>>) \o UnderscoreCapitals(s, i + 1)

\* lines 259-261: camelCase to snake_case, one leading underscore stripped
SnakeCase(field_name) ==
    LET snake_case == Lower(UnderscoreCapitals(field_name, 1)) IN
    IF StartsWith(snake_case, <<"_">>) THEN Tail(snake_case) ELSE snake_case

AttributionPrefix ==
    <<"A", "t", "t", "r", "i", "b", "u", "t", "i", "o", "n", "_">>
ColumnPrefix ==
    <<"a", "t", "t", "r", "i", "b", "u", "t", "i", "o", "n", "_">>

\* the known-field table of lines 224-254
field_mapping ==
    (<<"a", "g", "e", "n", "t", "E", "m", "a", "i", "l">> :>
          <<"a", "g", "e", "n", "t", "_", "e", "m", "a", "i", "l">>)
    @@ (<<"a", "g", "e", "n", "t", "L", "i", "c", "e", "n", "s", "e", "N",
        "u", "m", "b", "e", "r">> :>
          <<"a", "g", "e", "n", "t", "_", "l", "i", "c", "e", "n", "s", "e",
          "_", "n", "u", "m", "b", "e", "r">>)
    @@ (<<"a", "g", "e", "n", "t", "N", "a", "m", "e">> :>
          <<"a", "g", "e", "n", "t", "_", "n", "a", "m", "e">>)
    @@ (<<"a", "g", "e", "n", "t", "P", "h", "o", "n", "e", "N", "u", "m",
        "b", "e", "r">> :>
          <<"a", "g", "e", "n", "t", "_", "p", "h", "o", "n", "e", "_", "n",
          "u", "m", "b", "e", "r">>)
    @@ (<<"a", "t", "t", "r", "i", "b", "u", "t", "i", "o", "n", "T", "i",
        "t", "l", "e">> :>
          <<"t", "i", "t", "l", "e">>)
    @@ (<<"b", "r", "o", "k", "e", "r", "N", "a", "m", "e">> :>
          <<"b", "r", "o", "k", "e", "r", "_", "n", "a", "m", "e">>)
    @@ (<<"b", "r", "o", "k", "e", "r", "P", "h", "o", "n", "e", "N", "u",
        "m", "b", "e", "r">> :>
          <<"b", "r", "o", "k", "e", "r", "_", "p", "h", "o", "n", "e", "_",
          "n", "u", "m", "b", "e", "r">>)
    @@ (<<"b", "u", "y", "e", "r", "A", "g", "e", "n", "t", "M", "e", "m",
        "b", "e", "r", "S", "t", "a", "t", "e", "L", "i", "c", "e", "n", "s",
        "e">> :>
          <<"b", "u", "y", "e", "r", "_", "a", "g", "e", "n", "t", "_", "m",
          "e", "m", "b", "e", "r", "_", "s", "t", "a", "t", "e", "_", "l",
          "i", "c", "e", "n", "s", "e">>)
    @@ (<<"b", "u", "y", "e", "r", "A", "g", "e", "n", "t", "N", "a", "m",
        "e">> :>
          <<"b", "u", "y", "e", "r", "_", "a", "g", "e", "n", "t", "_", "n",
          "a", "m", "e">>)
    @@ (<<"b", "u", "y", "e", "r", "B", "r", "o", "k", "e", "r", "a", "g",
        "e", "N", "a", "m", "e">> :>
          <<"b", "u", "y", "e", "r", "_", "b", "r", "o", "k", "e", "r", "a",
          "g", "e", "_", "n", "a", "m", "e">>)
    @@ (<<"c", "o", "A", "g", "e", "n", "t", "L", "i", "c", "e", "n", "s",
        "e", "N", "u", "m", "b", "e", "r">> :>
          <<"c", "o", "_", "a", "g", "e", "n", "t", "_", "l", "i", "c", "e",
          "n", "s", "e", "_", "n", "u", "m", "b", "e", "r">>)
    @@ (<<"c", "o", "A", "g", "e", "n", "t", "N", "a", "m", "e">> :>
          <<"c", "o", "_", "a", "g", "e", "n", "t", "_", "n", "a", "m",
          "e">>)
    @@ (<<"c", "o", "A", "g", "e", "n", "t", "N", "u", "m", "b", "e", "r">> :>
          <<"c", "o", "_", "a", "g", "e", "n", "t", "_", "n", "u", "m", "b",
          "e", "r">>)
    @@ (<<"l", "a", "s", "t", "C", "h", "e", "c", "k", "e", "d">> :>
          <<"l", "a", "s", "t", "_", "c", "h", "e", "c", "k", "e", "d">>)
    @@ (<<"l", "a", "s", "t", "U", "p", "d", "a", "t", "e", "d">> :>
          <<"l", "a", "s", "t", "_", "u", "p", "d", "a", "t", "e", "d">>)
    @@ (<<"l", "i", "s", "t", "i", "n", "g", "O", "f", "f", "i", "c", "e",
        "s">> :>
          <<"l", "i", "s", "t", "i", "n", "g", "_", "o", "f", "f", "i", "c",
          "e", "s">>)
    @@ (<<"l", "i", "s", "t", "i", "n", "g", "A", "g", "e", "n", "t", "s">> :>
          <<"l", "i", "s", "t", "i", "n", "g", "_", "a", "g", "e", "n", "t",
          "s">>)
    @@ (<<"m", "l", "s", "D", "i", "s", "c", "l", "a", "i", "m", "e", "r">> :>
          <<"m", "l", "s", "_", "d", "i", "s", "c", "l", "a", "i", "m", "e",
          "r">>)
    @@ (<<"m", "l", "s", "I", "d">> :>
          <<"m", "l", "s", "_", "i", "d">>)
    @@ (<<"m", "l", "s", "N", "a", "m", "e">> :>
          <<"m", "l", "s", "_", "n", "a", "m", "e">>)
    @@ (<<"p", "r", "o", "v", "i", "d", "e", "r", "L", "o", "g", "o">> :>
          <<"p", "r", "o", "v", "i", "d", "e", "r", "_", "l", "o", "g",
          "o">>)
    @@ (<<"l", "i", "s", "t", "i", "n", "g", "A", "g", "r", "e", "e", "m",
        "e", "n", "t">> :>
          <<"l", "i", "s", "t", "i", "n", "g", "_", "a", "g", "r", "e", "e",
          "m", "e", "n", "t">>)
    @@ (<<"l", "i", "s", "t", "i", "n", "g", "A", "t", "t", "r", "i", "b",
        "u", "t", "i", "o", "n", "C", "o", "n", "t", "a", "c", "t">> :>
          <<"l", "i", "s", "t", "i", "n", "g", "_", "a", "t", "t", "r", "i",
          "b", "u", "t", "i", "o", "n", "_", "c", "o", "n", "t", "a", "c",
          "t">>)
    @@ (<<"l", "i", "s", "t", "i", "n", "g", "A", "g", "e", "n", "t", "A",
        "t", "t", "r", "i", "b", "u", "t", "i", "o", "n", "C", "o", "n", "t",
        "a", "c", "t">> :>
          <<"l", "i", "s", "t", "i", "n", "g", "_", "a", "g", "e", "n", "t",
          "_", "a", "t", "t", "r", "i", "b", "u", "t", "i", "o", "n", "_",
          "c", "o", "n", "t", "a", "c", "t">>)
    @@ (<<"i", "n", "f", "o", "S", "t", "r", "i", "n", "g", "3">> :>
          <<"i", "n", "f", "o", "_", "s", "t", "r", "i", "n", "g", "3">>)
    @@ (<<"i", "n", "f", "o", "S", "t", "r", "i", "n", "g", "5">> :>
          <<"i", "n", "f", "o", "_", "s", "t", "r", "i", "n", "g", "5">>)
    @@ (<<"i", "n", "f", "o", "S", "t", "r", "i", "n", "g", "1", "0">> :>
          <<"i", "n", "f", "o", "_", "s", "t", "r", "i", "n", "g", "1",
          "0">>)
    @@ (<<"i", "n", "f", "o", "S", "t", "r", "i", "n", "g", "1", "6">> :>
          <<"i", "n", "f", "o", "_", "s", "t", "r", "i", "n", "g", "1",
          "6">>)
    @@ (<<"t", "r", "u", "e", "S", "t", "a", "t", "u", "s">> :>
          <<"t", "r", "u", "e", "_", "s", "t", "a", "t", "u", "s">>)

PropertyColumns == {
    <<"a", "t", "t", "r", "i", "b", "u", "t", "i", "o", "n", "_", "a", "g",
    "e", "n", "t", "_", "e", "m", "a", "i", "l">>,
    <<"a", "t", "t", "r", "i", "b", "u", "t", "i", "o", "n", "_", "a", "g",
    "e", "n", "t", "_", "l", "i", "c", "e", "n", "s", "e", "_", "n", "u",
    "m", "b", "e", "r">>,
    <<"a", "t", "t", "r", "i", "b", "u", "t", "i", "o", "n", "_", "a", "g",
    "e", "n", "t", "_", "n", "a", "m", "e">>,
    <<"a", "t", "t", "r", "i", "b", "u", "t", "i", "o", "n", "_", "a", "g",
    "e", "n", "t", "_", "p", "h", "o", "n", "e", "_", "n", "u", "m", "b",
    "e", "r">>,
    <<"a", "t", "t", "r", "i", "b", "u", "t", "i", "o", "n", "_", "t", "i",
    "t", "l", "e">>,
    <<"a", "t", "t", "r", "i", "b", "u", "t", "i", "o", "n", "_", "b", "r",
    "o", "k", "e", "r", "_", "n", "a", "m", "e">>,
    <<"a", "t", "t", "r", "i", "b", "u", "t", "i", "o", "n", "_", "b", "r",
    "o", "k", "e", "r", "_", "p", "h", "o", "n", "e", "_", "n", "u", "m",
    "b", "e", "r">>,
    <<"a", "t", "t", "r", "i", "b", "u", "t", "i", "o", "n", "_", "b", "u",
    "y", "e", "r", "_", "a", "g", "e", "n", "t", "_", "m", "e", "m", "b",
    "e", "r", "_", "s", "t", "a", "t", "e", "_", "l", "i", "c", "e", "n",
    "s", "e">>,
    <<"a", "t", "t", "r", "i", "b", "u", "t", "i", "o", "n", "_", "b", "u",
    "y", "e", "r", "_", "a", "g", "e", "n", "t", "_", "n", "a", "m", "e">>,
    <<"a", "t", "t", "r", "i", "b", "u", "t", "i", "o", "n", "_", "b", "u",
    "y", "e", "r", "_", "b", "r", "o", "k", "e", "r", "a", "g", "e", "_",
    "n", "a", "m", "e">>,
    <<"a", "t", "t", "r", "i", "b", "u", "t", "i", "o", "n", "_", "c", "o",
    "_", "a", "g", "e", "n", "t", "_", "l", "i", "c", "e", "n", "s", "e",
    "_", "n", "u", "m", "b", "e", "r">>,
    <<"a", "t", "t", "r", "i", "b", "u", "t", "i", "o", "n", "_", "c", "o",
    "_", "a", "g", "e", "n", "t", "_", "n", "a", "m", "e">>,
    <<"a", "t", "t", "r", "i", "b", "u", "t", "i", "o", "n", "_", "c", "o",
    "_", "a", "g", "e", "n", "t", "_", "n", "u", "m", "b", "e", "r">>,
    <<"a", "t", "t", "r", "i", "b", "u", "t", "i", "o", "n", "_", "l", "a",
    "s", "t", "_", "c", "h", "e", "c", "k", "e", "d">>,
    <<"a", "t", "t", "r", "i", "b", "u", "t", "i", "o", "n", "_", "l", "a",
    "s", "t", "_", "u", "p", "d", "a", "t", "e", "d">>,
    <<"a", "t", "t", "r", "i", "b", "u", "t", "i", "o", "n", "_", "l", "i",
    "s", "t", "i", "n", "g", "_", "o", "f", "f", "i", "c", "e", "s">>,
    <<"a", "t", "t", "r", "i", "b", "u", "t", "i", "o", "n", "_", "l", "i",
    "s", "t", "i", "n", "g", "_", "a", "g", "e", "n", "t", "s">>,
    <<"a", "t", "t", "r", "i", "b", "u", "t", "i", "o", "n", "_", "m", "l",
    "s", "_", "d", "i", "s", "c", "l", "a", "i", "m", "e", "r">>,
    <<"a", "t", "t", "r", "i", "b", "u", "t", "i", "o", "n", "_", "m", "l",
    "s", "_", "i", "d">>,
    <<"a", "t", "t", "r", "i", "b", "u", "t", "i", "o", "n", "_", "m", "l",
    "s", "_", "n", "a", "m", "e">>,
    <<"a", "t", "t", "r", "i", "b", "u", "t", "i", "o", "n", "_", "p", "r",
    "o", "v", "i", "d", "e", "r", "_", "l", "o", "g", "o">>,
    <<"a", "t", "t", "r", "i", "b", "u", "t", "i", "o", "n", "_", "l", "i",
    "s", "t", "i", "n", "g", "_", "a", "g", "r", "e", "e", "m", "e", "n",
    "t">>,
    <<"a", "t", "t", "r", "i", "b", "u", "t", "i", "o", "n", "_", "l", "i",
    "s", "t", "i", "n", "g", "_", "a", "t", "t", "r", "i", "b", "u", "t",
    "i", "o", "n", "_", "c", "o", "n", "t", "a", "c", "t">>,
    <<"a", "t", "t", "r", "i", "b", "u", "t", "i", "o", "n", "_", "l", "i",
    "s", "t", "i", "n", "g", "_", "a", "g", "e", "n", "t", "_", "a", "t",
    "t", "r", "i", "b", "u", "t", "i", "o", "n", "_", "c", "o", "n", "t",
    "a", "c", "t">>,
    <<"a", "t", "t", "r", "i", "b", "u", "t", "i", "o", "n", "_", "i", "n",
    "f", "o", "_", "s", "t", "r", "i", "n", "g", "3">>,
    <<"a", "t", "t", "r", "i", "b", "u", "t", "i", "o", "n", "_", "i", "n",
    "f", "o", "_", "s", "t", "r", "i", "n", "g", "5">>,
    <<"a", "t", "t", "r", "i", "b", "u", "t", "i", "o", "n", "_", "i", "n",
    "f", "o", "_", "s", "t", "r", "i", "n", "g", "1", "0">>,
    <<"a", "t", "t", "r", "i", "b", "u", "t", "i", "o", "n", "_", "i", "n",
    "f", "o", "_", "s", "t", "r", "i", "n", "g", "1", "6">>,
    <<"a", "t", "t", "r", "i", "b", "u", "t", "i", "o", "n", "_", "t", "r",
    "u", "e", "_", "s", "t", "a", "t", "u", "s">>,
    <<"a", "t", "t", "r", "i", "b", "u", "t", "i", "o", "n", "_", "e", "x",
    "t", "r", "a">>
    }

\* lines 220, 256-262: the column name add_property derives from a key
FieldName(key) == Remove(key, AttributionPrefix)
DbFieldName(field_name) ==
    IF field_name \in DOMAIN field_mapping
    THEN ColumnPrefix \o field_mapping[field_name]
    ELSE ColumnPrefix \o SnakeCase(field_name)

\* hasattr(Property, db_field_name)
HasAttr(db_field_name) == db_field_name \in PropertyColumns

\* a value of the listing detail: a string, or a list of strings
StrValue(t) == [kind |-> "str", text |-> t]
ListValue(t) == [kind |-> "list", text |-> t]
AttributionValues == {StrValue("v1"), ListValue("v2")}

\* lines 266-269: json.dumps(value) of a list, str(value) otherwise
ColumnValue(value) ==
    IF value.kind = "list"
    THEN StrValue(IF value.text = "v1" THEN "[\"v1\"]" ELSE "[\"v2\"]")
    ELSE StrValue(value.text)

\* the keys of the listing details the model passes to add_property
AttributionKeys == {
    AttributionPrefix \o <<"a", "g", "e", "n", "t", "N", "a", "m", "e">>,
    AttributionPrefix \o <<"A", "g", "e", "n", "t", "N", "a", "m", "e">>,
    AttributionPrefix \o <<"a", "t", "t", "r", "i", "b", "u", "t", "i", "o",
                           "n", "T", "i", "t", "l", "e">>,
    AttributionPrefix \o <<"t", "i", "t", "l", "e">>,
    AttributionPrefix \o <<"i", "n", "f", "o", "S", "t", "r", "i", "n", "g", "3">>,
    AttributionPrefix \o <<"i", "n", "f", "o", "S", "t", "r", "i", "n", "g", "4">>,
    AttributionPrefix \o <<"n", "e", "w", "F", "i", "e", "l", "d">>,
    AttributionPrefix \o <<"e", "x", "t", "r", "a">>,
    AttributionPrefix \o AttributionPrefix \o <<"m", "l", "s", "I", "d">>,
    <<"U", "r", "l">>
    }

\* a dict: the empty one, and d[k] = v
EmptyDict == [k \in {} |-> None]
DictSet(dict, k, v) ==
    [x \in DOMAIN dict \cup {k} |-> IF x = k THEN v ELSE dict[x]]

\* property_data.items(): up to MaxKeys pairs with distinct keys
RECURSIVE ItemLists(_)
ItemLists(n) ==
    IF n = 0 THEN {<< >>}
    ELSE LET shorter == ItemLists(n - 1) IN
         shorter \cup
         {Append(l, <<k, v>>) :
            l \in {x \in shorter : Len(x) = n - 1},
            k \in AttributionKeys, v \in AttributionValues}

DistinctKeys(items) ==
    \A i, j \in 1 .. Len(items) : i # j => items[i][1] # items[j][1]

PropertyData == {l \in ItemLists(MaxKeys) : DistinctKeys(l)}

\* lines 217-272: one iteration of the loop over property_data.items()
MapItem(a) ==
    LET key == a.property_data[a.i][1]
        value == a.property_data[a.i][2]
        field_name == FieldName(key)
        db_field_name == DbFieldName(field_name)
        next == [a EXCEPT !.i = a.i + 1]
    IN  IF ~StartsWith(key, AttributionPrefix) THEN next
        ELSE IF HasAttr(db_field_name)
        THEN [next EXCEPT !.attribution_fields =
                            DictSet(a.attribution_fields, db_field_name,
                                    ColumnValue(value))]
        ELSE [next EXCEPT !.extra_attribution =
                            DictSet(a.extra_attribution, field_name, value)]

\* lines 276-288: Property(attribution_extra=..., **attribution_fields); a
\* keyword passed twice is a TypeError
ExtraColumn == ColumnPrefix \o <<"e", "x", "t", "r", "a">>
CreateProperty(a) ==
    IF ExtraColumn \in DOMAIN a.attribution_fields
    THEN [a EXCEPT !.pc = "TypeError"]
    ELSE [a EXCEPT !.pc = "added"]

NoCall ==
    [pc |-> "off", property_data |-> << >>, i |-> 1,
     attribution_fields |-> EmptyDict, extra_attribution |-> EmptyDict]

AttrInit ==
    \E d \in PropertyData :
       ap = [pc |-> "loop", property_data |-> d, i |-> 1,
             attribution_fields |-> EmptyDict, extra_attribution |-> EmptyDict]

AttrOff == ap = NoCall

\* the loop of line 217 takes the next item
add_property_item ==
    /\ ap.pc = "loop"
    /\ ap.i <= Len(ap.property_data)
    /\ ap' = MapItem(ap)
    /\ UNCHANGED notAttrVars

\* the loop is over: the Property object is created and added
add_property_create ==
    /\ ap.pc = "loop"
    /\ ap.i > Len(ap.property_data)
    /\ ap' = CreateProperty(ap)
    /\ UNCHANGED notAttrVars

NextAttr == add_property_item \/ add_property_create

(***************************************************************************)
(* ScraperScheduler's control calls (scraper_scheduler.py): start(),       *)
(* stop() and update_config() on one scheduler, with the in-memory         *)
(* self.config, the jobs registered with schedule and the scraper_configs  *)
(* row.  The timer-loop threads are counted, not run.                      *)
(***************************************************************************)
ConfigKeys == {"is_enabled", "schedule_interval_minutes", "timeout_minutes"}

\* the values a caller passes for the interval and the timeout
IntervalInputs == {0, 15, 1441}
TimeoutInputs == {10, 121}

\* the new_config dicts of update_config(): keys holds the keys present; an
\* absent key carries the column default
NewConfigs ==
    {c \in [keys : SUBSET ConfigKeys,
            is_enabled : BOOLEAN,
            schedule_interval_minutes :
                IntervalInputs \cup {default_schedule_interval_minutes},
            timeout_minutes : TimeoutInputs \cup {default_timeout_minutes}] :
        /\ c.keys # {}
        /\ "is_enabled" \notin c.keys => c.is_enabled
        /\ "schedule_interval_minutes" \notin c.keys =>
              c.schedule_interval_minutes = default_schedule_interval_minutes
        /\ "timeout_minutes" \notin c.keys =>
              c.timeout_minutes = default_timeout_minutes}

NoArg ==
    [keys |-> {}, is_enabled |-> TRUE,
     schedule_interval_minutes |-> default_schedule_interval_minutes,
     timeout_minutes |-> default_timeout_minutes]

\* update_scraper_config(): setattr for every key of updates, then commit
UpdateScraperConfig(row, updates) ==
    [row EXCEPT
        !.is_enabled =
            IF "is_enabled" \in updates.keys THEN updates.is_enabled ELSE @,
        !.schedule_interval_minutes =
            IF "schedule_interval_minutes" \in updates.keys
            THEN updates.schedule_interval_minutes ELSE @,
        !.timeout_minutes =
            IF "timeout_minutes" \in updates.keys
            THEN updates.timeout_minutes ELSE @]

\* whether the commit of the row succeeds
CommitOutcomes == BOOLEAN

\* the jobs setup_scheduler() registers after schedule.clear()
EveryMinutes(n) == [unit |-> "minutes", interval |-> n, at |-> NoTime]
EveryDayAt(t) == [unit |-> "day", interval |-> 1, at |-> t]
SetupJobs(cfg, now) ==
    IF cfg.is_enabled
    THEN <<EveryMinutes(cfg.schedule_interval_minutes)>> \o
         (IF cfg.next_scheduled_run # NoTime /\ cfg.next_scheduled_run - now > 0
          THEN <<EveryDayAt(cfg.next_scheduled_run)>> ELSE << >>)
    ELSE << >>

\* `if self.is_running: ... return` of start()
AlreadyRunningNever(running) == FALSE
AlreadyRunning(running) == running

\* the calls made so far: their number, the last one with its argument and
\* result, whether its write of the row was committed, and the number of
\* timer-loop threads start() has created
NoCalls ==
    [n |-> 0, call |-> None, arg |-> NoArg, result |-> None,
     committed |-> FALSE, threads |-> 0]

\* the rows of scraper_configs a scheduler may find
ConfigRows ==
    [is_enabled : BOOLEAN,
     schedule_interval_minutes : {default_schedule_interval_minutes},
     timeout_minutes : {default_timeout_minutes},
     last_scheduled_run : {NoTime},
     next_scheduled_run : {NoTime, 1}]

CtlInit ==
    /\ is_running = FALSE
    /\ scheduler_thread = NoThread
    /\ current_job = NoThread
    /\ job = [j \in JobIds |-> "unborn"]
    /\ loop = [l \in LoopIds |-> NoTick("unborn")]
    /\ rn = [t \in Req |-> IdleCall]
    /\ clock = 0
    /\ dbcfg \in ConfigRows
    /\ schedule_jobs = SetupScheduler(dbcfg, clock)
    /\ config = dbcfg
    /\ timer = SetupJobs(dbcfg, clock)
    /\ ctl = NoCalls

CtlOff ==
    /\ config = [is_enabled |-> TRUE,
                 schedule_interval_minutes |-> default_schedule_interval_minutes,
                 timeout_minutes |-> default_timeout_minutes,
                 last_scheduled_run |-> NoTime,
                 next_scheduled_run |-> NoTime]
    /\ timer = << >>
    /\ ctl = NoCalls

\* start(): a no-op when is_running, else a new timer-loop thread
ctl_start ==
    /\ ctl.n < MaxCalls
    /\ IF AlreadyRunning(is_running)
       THEN /\ ctl' = [ctl EXCEPT !.n = @ + 1, !.call = "start", !.arg = NoArg,
                                  !.result = "already_running",
                                  !.committed = FALSE]
            /\ UNCHANGED <<is_running, scheduler_thread>>
       ELSE /\ is_running' = TRUE
            /\ scheduler_thread' = ctl.threads + 1
            /\ ctl' = [ctl EXCEPT !.n = @ + 1, !.call = "start", !.arg = NoArg,
                                  !.result = "started", !.committed = FALSE,
                                  !.threads = @ + 1]
    /\ UNCHANGED <<current_job, job, loop, rn, schedule_jobs, dbcfg, clock,
                   config, timer>>
    /\ UNCHANGED notCtlVars

\* stop(): clears is_running
ctl_stop ==
    /\ ctl.n < MaxCalls
    /\ is_running' = FALSE
    /\ ctl' = [ctl EXCEPT !.n = @ + 1, !.call = "stop", !.arg = NoArg,
                          !.result = None, !.committed = FALSE]
    /\ UNCHANGED <<scheduler_thread, current_job, job, loop, rn, schedule_jobs,
                   dbcfg, clock, config, timer>>
    /\ UNCHANGED notCtlVars

\* update_config(new_config): update_scraper_config(); on success the row is
\* read into self.config and setup_scheduler() registers the jobs again
update_config ==
    /\ ctl.n < MaxCalls
    /\ \E new_config \in NewConfigs, success \in CommitOutcomes :
          /\ ctl' = [ctl EXCEPT !.n = @ + 1, !.call = "update_config",
                                !.arg = new_config,
                                !.result = IF success THEN "True" ELSE "False",
                                !.committed = success]
          /\ IF success
             THEN /\ dbcfg' = UpdateScraperConfig(dbcfg, new_config)
                  /\ config' = dbcfg'
                  /\ timer' = SetupJobs(dbcfg', clock)
                  /\ schedule_jobs' = SetupScheduler(dbcfg', clock)
             ELSE UNCHANGED <<dbcfg, config, timer, schedule_jobs>>
    /\ UNCHANGED <<is_running, scheduler_thread, current_job, job, loop, rn, clock>>
    /\ UNCHANGED notCtlVars

\* time passes in the scheduler process
ctl_time_passes ==
    /\ clock < MaxClock
    /\ clock' = clock + 1
    /\ UNCHANGED <<is_running, scheduler_thread, current_job, job, loop, rn,
                   schedule_jobs, dbcfg, config, timer, ctl>>
    /\ UNCHANGED notCtlVars

NextCtl == ctl_start \/ ctl_stop \/ update_config \/ ctl_time_passes

(***************************************************************************)
(* ScraperScheduler.get_status() (scraper_scheduler.py) on a request       *)
(* thread, next to run_now() calls and the executor threads.  Line 175     *)
(* reads current_job twice, without a lock.                                *)
(***************************************************************************)
\* the dict get_status() returns: the status of lines 166-176, or the
\* fallback of lines 183-187 with the error's name
NoStatus ==
    [error |-> None, is_enabled |-> FALSE, schedule_interval_minutes |-> 0,
     last_scheduled_run |-> NoTime, next_scheduled_run |-> NoTime,
     scheduler_running |-> FALSE, current_job_running |-> FALSE]

Status(cfg, running) ==
    [error |-> None, is_enabled |-> cfg.is_enabled,
     schedule_interval_minutes |-> cfg.schedule_interval_minutes,
     last_scheduled_run |-> cfg.last_scheduled_run,
     next_scheduled_run |-> cfg.next_scheduled_run,
     scheduler_running |-> running, current_job_running |-> FALSE]

ErrorFallback(e) == [NoStatus EXCEPT !.error = e]

\* a thread outside get_status(); inside, status is the dict built so far and
\* alive holds the executors alive when the in-flight flag was decided
IdleStatus == [pc |-> "idle", status |-> NoStatus, alive |-> {}]

StatusInit == gs = IdleStatus

\* `self.current_job is not None and self.current_job.is_alive()`, first
\* read: False when current_job is None
StatusRead1(g, cj) ==
    IF cj = NoThread
    THEN [g EXCEPT !.pc = "returned", !.alive = AliveJobs]
    ELSE [g EXCEPT !.pc = "read2"]

\* second read and is_alive(); the AttributeError of a None is caught by
\* line 181 and the fallback is returned
StatusRead2(g, cj) ==
    IF AfterRead2(cj) = "AttributeError"
    THEN [g EXCEPT !.pc = "returned", !.status = ErrorFallback("AttributeError"),
                   !.alive = AliveJobs]
    ELSE [g EXCEPT !.pc = "returned",
                   !.status.current_job_running = (AfterRead2(cj) = "busy"),
                   !.alive = AliveJobs]

\* get_status() is called: lines 163-174, the row and is_running are read
get_status_enter ==
    /\ gs.pc = "idle"
    /\ gs' = [pc |-> "read1", status |-> Status(dbcfg, is_running), alive |-> {}]
    /\ UNCHANGED schedVars
    /\ UNCHANGED notStatusVars

\* line 175, `self.current_job is not None`
get_status_read1 ==
    /\ gs.pc = "read1"
    /\ gs' = StatusRead1(gs, current_job)
    /\ UNCHANGED schedVars
    /\ UNCHANGED notStatusVars

\* line 175, `self.current_job.is_alive()`
get_status_read2 ==
    /\ gs.pc = "read2"
    /\ gs' = StatusRead2(gs, current_job)
    /\ UNCHANGED schedVars
    /\ UNCHANGED notStatusVars

\* the request is answered; the thread serves the next request
get_status_done ==
    /\ gs.pc = "returned"
    /\ gs' = IdleStatus
    /\ UNCHANGED schedVars
    /\ UNCHANGED notStatusVars

NextStatus ==
    \/ get_status_enter
    \/ get_status_read1
    \/ get_status_read2
    \/ get_status_done
    \/ \E t \in Req :
          \/ run_now_enter(t)
          \/ run_now_alive(t)
          \/ run_now_create(t)
          \/ run_now_start(t)
          \/ run_now_done(t)
    \/ \E j \in JobIds : run_scraper_process_end(j)

(***************************************************************************)
(* send_messages_to_agents (send_agent_messages.py): one campaign over the *)
(* properties of the store, search term by search term.  A phone number is *)
(* the sequence of its characters; a dict is the sequence of its items in  *)
(* insertion order; a key of agent_phones is a name with its suffix.       *)
(***************************************************************************)
Digits == {"0", "1", "2", "3", "4", "5", "6", "7", "8", "9"}

\* str.strip() of blanks
RECURSIVE Strip(_)
Strip(s) ==
    IF s = << >> THEN s
    ELSE IF Head(s) = " " THEN Strip(Tail(s))
    ELSE IF s[Len(s)] = " " THEN Strip(SubSeq(s, 1, Len(s) - 1))
    ELSE s

\* line 76: `if phone and phone not in ['None', 'null', '']`, after the
\* truth test of the column and str(...).strip()
PhoneSkipped(raw) ==
    Strip(raw) \in {<< >>, <<"N", "o", "n", "e">>, <<"n", "u", "l", "l">>}

\* lines 76-90: re.sub(r'[^\d]', '', phone), then '+1' before 10 digits and
\* '+' before 11; << >> stands for a number that is skipped
CleanedPhone(raw) ==
    LET phone == Strip(raw)
        digits == SelectSeq(phone, LAMBDA c : c \in Digits)
    IN  IF PhoneSkipped(raw) THEN << >>
        ELSE IF Len(digits) = 10 THEN <<"+", "1">> \o digits
        ELSE IF Len(digits) = 11 THEN <<"+">> \o digits
        ELSE << >>

\* the phone columns of the rows the model reads; << >> is a column that is
\* null or empty
NoPhone == << >>
PhoneA == <<"5", "5", "5", "0", "1", "0", "0", "0", "0", "1">>
PhoneAFormatted ==
    <<"(", "5", "5", "5", ")", " ", "0", "1", "0", "-", "0", "0", "0", "1">>
PhoneB == <<"5", "5", "5", "0", "1", "0", "0", "0", "0", "2">>
PhoneBLong ==
    <<"1", "-", "5", "5", "5", "-", "0", "1", "0", "-", "0", "0", "0", "2", " ">>
PhoneShort == <<"5", "5", "5", "-", "0", "1", "0", "0">>

\* the rows of the properties table a campaign may read
NotifyProperties ==
    [attribution_agent_name : {None, "Ann"},
     attribution_agent_phone_number : {NoPhone, PhoneA, PhoneAFormatted, PhoneB},
     attribution_broker_name : {None},
     attribution_broker_phone_number : {NoPhone, PhoneBLong},
     attribution_co_agent_name : {None},
     attribution_co_agent_number : {NoPhone, PhoneShort}]

\* `name or "Unknown ..."`
OrDefault(name, default) == IF name = None THEN default ELSE name

\* dict operations on the sequence of items
DictKeys(d) == {d[i][1] : i \in 1 .. Len(d)}
DictPhones(d) == {d[i][2].phone : i \in 1 .. Len(d)}
DictGet(d, k) == (CHOOSE i \in 1 .. Len(d) : d[i][1] = k)
DictPut(d, k, v) ==
    IF k \in DictKeys(d)
    THEN [i \in 1 .. Len(d) |-> IF d[i][1] = k THEN <<k, v>> ELSE d[i]]
    ELSE Append(d, <<k, v>>)

\* lines 70-148: the body of the loop over the properties, for one property
\* of search term T; `continue` at an invalid number leaves the property
ExtractProperty(agent_phones, prop, T) ==
    LET agent == CleanedPhone(prop.attribution_agent_phone_number)
        broker == CleanedPhone(prop.attribution_broker_phone_number)
        co == CleanedPhone(prop.attribution_co_agent_number)
        agent_name == OrDefault(prop.attribution_agent_name, "Unknown Agent")
        broker_name == OrDefault(prop.attribution_broker_name, "Unknown Broker")
        co_agent_name == OrDefault(prop.attribution_co_agent_name, "Unknown Co-Agent")
        AgentSkipped == PhoneSkipped(prop.attribution_agent_phone_number)
        BrokerSkipped == PhoneSkipped(prop.attribution_broker_phone_number)
        CoSkipped == PhoneSkipped(prop.attribution_co_agent_number)
        Differs(d, name, phone) ==
            <<name, "">> \notin DictKeys(d) \/ d[DictGet(d, <<name, "">>)][2].phone # phone
        a1 == IF AgentSkipped THEN agent_phones
              ELSE DictPut(agent_phones, <<agent_name, "">>,
                           [phone |-> agent, search_term |-> T])
        a2 == IF BrokerSkipped \/ ~Differs(a1, broker_name, broker) THEN a1
              ELSE DictPut(a1, <<broker_name, " (Broker)">>,
                           [phone |-> broker, search_term |-> T])
        a3 == IF CoSkipped \/ ~Differs(a2, co_agent_name, co) THEN a2
              ELSE DictPut(a2, <<co_agent_name, " (Co-Agent)">>,
                           [phone |-> co, search_term |-> T])
    IN  IF ~AgentSkipped /\ agent = << >> THEN agent_phones
        ELSE IF ~BrokerSkipped /\ broker = << >> THEN a1
        ELSE IF ~CoSkipped /\ co = << >> THEN a2
        ELSE a3

\* the valid numbers of one property
ValidPhones(prop) ==
    {CleanedPhone(prop.attribution_agent_phone_number),
     CleanedPhone(prop.attribution_broker_phone_number),
     CleanedPhone(prop.attribution_co_agent_number)} \ {<< >>}

\* lines 220-222: the agents of one search term are merged into all_agents,
\* from item i on
RECURSIVE MergeAgents(_, _, _)
MergeAgents(all_agents, agent_phones, i) ==
    IF i > Len(agent_phones) THEN all_agents
    ELSE MergeAgents(
            IF agent_phones[i][2].phone \notin DictPhones(all_agents)
            THEN DictPut(all_agents, agent_phones[i][1], agent_phones[i][2])
            ELSE all_agents,
            agent_phones, i + 1)

NotifyStart ==
    [pc |-> "extract", term |-> 1, n |-> 0, agent_phones |-> << >>,
     all_agents |-> << >>, found |-> {}, handed |-> << >>, i |-> 1,
     total_agents |-> 0, successful_sends |-> 0, failed_sends |-> 0]

NotifyInit == nf = NotifyStart

\* extract_phone_numbers_from_properties(): the next property of the term
notify_property ==
    /\ nf.pc = "extract"
    /\ nf.n < MaxProps
    /\ \E prop \in NotifyProperties :
          nf' = [nf EXCEPT
                   !.n = @ + 1,
                   !.agent_phones = ExtractProperty(@, prop, nf.term),
                   !.found = @ \cup ValidPhones(prop)]
    /\ UNCHANGED notNotifyVars

\* lines 207-224: the term's properties are through; its agents are merged,
\* and the next term follows or the terms are through
notify_merge ==
    /\ nf.pc = "extract"
    /\ LET all_agents == MergeAgents(nf.all_agents, nf.agent_phones, 1) IN
       \/ /\ nf.term < NumTerms
          /\ nf' = [nf EXCEPT !.term = @ + 1, !.n = 0, !.agent_phones = << >>,
                              !.all_agents = all_agents]
       \/ nf' = [nf EXCEPT !.pc = "send", !.n = 0, !.agent_phones = << >>,
                           !.all_agents = all_agents,
                           !.total_agents = Len(all_agents)]
    /\ UNCHANGED notNotifyVars

\* lines 231-253: the next agent's message is handed to
\* send_twilio_message(), which returns True or False
notify_send ==
    /\ nf.pc = "send"
    /\ nf.i <= Len(nf.all_agents)
    /\ \E sent \in BOOLEAN :
          nf' = [nf EXCEPT
                   !.i = @ + 1,
                   !.handed = Append(@, nf.all_agents[nf.i][2].phone),
                   !.successful_sends = IF sent THEN @ + 1 ELSE @,
                   !.failed_sends = IF sent THEN @ ELSE @ + 1]
    /\ UNCHANGED notNotifyVars

\* line 255: return results
notify_return ==
    /\ nf.pc = "send"
    /\ nf.i > Len(nf.all_agents)
    /\ nf' = [nf EXCEPT !.pc = "done"]
    /\ UNCHANGED notNotifyVars

NextNotify == notify_property \/ notify_merge \/ notify_send \/ notify_return

(***************************************************************************)
(* process_search_with_retry() of get_listing_and_agent.py: the fetch of   *)
(* one configuration, with the wrappers retry_with_backoff puts around     *)
(* process_search_with_retry, process_search_config and process_property.  *)
(* The executor of line 143 runs process_property for the summaries in     *)
(* threads that share nothing; they are taken one after the other here.    *)
(***************************************************************************)
\* line 142: property_limit = min(10, len(map_result))
PropertyLimit(len) == Min(10, len)

\* what the wrapper does with what func did: ("return", v) or ("raise", e)
RetryOn(r, outcome, jitter) ==
    IF outcome[1] = "return" THEN RetryOnReturn(r, outcome[2])
    ELSE RetryOnRaise(r, outcome[2], jitter)

\* process_property(), lines 115-139: the body is one try block whose
\* `except Exception` returns None, so whatever get_from_home_url() raises
\* the function returns
ProcessProperty(detail) ==
    IF detail[1] = "raise" THEN <<"return", None>> ELSE <<"return", "dict">>

FetchStart ==
    [pc |-> "outer",
     outer |-> RetryStart(search_retries, SearchPolicy),
     inner |-> RetryStart(search_retries, SearchPolicy),
     prop |-> RetryStart(property_retries, PropertyPolicy),
     for_sale_calls |-> 0, for_sale_failed |-> 0,
     map_result |-> 0, i |-> 1,
     detail_calls |-> [k \in 1 .. MaxProps |-> 0],
     detail_failed |-> {},
     properties_data |-> << >>]

FetchInit == fx = FetchStart

\* the wrapper of process_search_with_retry (lines 231-235) invokes it, and
\* it calls process_search_config, i.e. the wrapper of lines 87-88
fetch_outer_call ==
    /\ fx.pc = "outer"
    /\ fx.outer.state = "loop"
    /\ fx' = [fx EXCEPT !.pc = "inner",
                        !.inner = RetryStart(search_retries, SearchPolicy)]
    /\ UNCHANGED notFetchVars

\* the wrapper of process_search_config invokes it: pyzill.for_sale() (lines
\* 93-105) raises, or gives the summaries (line 108)
fetch_for_sale ==
    /\ fx.pc = "inner"
    /\ fx.inner.state = "loop"
    /\ \/ \E e \in Excs : \E j \in Jitters(fx.inner.delay) :
             fx' = [fx EXCEPT !.for_sale_calls = @ + 1,
                              !.for_sale_failed = @ + 1,
                              !.inner = RetryOn(fx.inner, <<"raise", e>>, j)]
       \/ \E n \in 0 .. MaxProps :
             fx' = [fx EXCEPT !.for_sale_calls = @ + 1,
                              !.map_result = n, !.i = 1,
                              !.properties_data = << >>,
                              !.detail_calls = [k \in 1 .. MaxProps |-> 0],
                              !.detail_failed = {},
                              !.prop = RetryStart(property_retries, PropertyPolicy),
                              !.pc = "props"]
    /\ UNCHANGED notFetchVars

\* time.sleep() of the wrapper of process_search_config returns
fetch_inner_wake ==
    /\ fx.pc = "inner"
    /\ fx.inner.state = "sleep"
    /\ fx' = [fx EXCEPT !.inner = RetryOnWake(fx.inner)]
    /\ UNCHANGED notFetchVars

\* the wrapper of process_search_config has raised its last exception:
\* process_search_with_retry raises it into its own wrapper
fetch_inner_raise ==
    /\ fx.pc = "inner"
    /\ fx.inner.state = "raised"
    /\ \E j \in Jitters(fx.outer.delay) :
          fx' = [fx EXCEPT !.pc = "outer",
                           !.outer = RetryOn(fx.outer,
                                             <<"raise", fx.inner.result>>, j)]
    /\ UNCHANGED notFetchVars

\* time.sleep() of the wrapper of process_search_with_retry returns
fetch_outer_wake ==
    /\ fx.pc = "outer"
    /\ fx.outer.state = "sleep"
    /\ fx' = [fx EXCEPT !.outer = RetryOnWake(fx.outer)]
    /\ UNCHANGED notFetchVars

\* the wrapper of process_search_with_retry raises: future.result() of
\* line 281 raises in main()
fetch_outer_raise ==
    /\ fx.pc = "outer"
    /\ fx.outer.state = "raised"
    /\ fx' = [fx EXCEPT !.pc = "raised"]
    /\ UNCHANGED notFetchVars

\* the wrapper of process_property invokes it for summary i:
\* get_from_home_url() (line 118) returns or raises
fetch_detail ==
    /\ fx.pc = "props"
    /\ fx.i <= PropertyLimit(fx.map_result)
    /\ fx.prop.state = "loop"
    /\ \E detail \in {<<"return", "data">>} \cup {<<"raise", e>> : e \in Excs} :
       \E j \in Jitters(fx.prop.delay) :
          fx' = [fx EXCEPT !.detail_calls[fx.i] = @ + 1,
                           !.detail_failed =
                               IF detail[1] = "raise" THEN @ \cup {fx.i} ELSE @,
                           !.prop = RetryOn(fx.prop, ProcessProperty(detail), j)]
    /\ UNCHANGED notFetchVars

\* lines 146-150: the future of summary i gives what the wrapper returned;
\* a dict is appended, None is passed over
fetch_collect ==
    /\ fx.pc = "props"
    /\ fx.i <= PropertyLimit(fx.map_result)
    /\ fx.prop.state = "returned"
    /\ fx' = [fx EXCEPT !.properties_data =
                            IF fx.prop.result # None THEN Append(@, fx.i) ELSE @,
                        !.i = @ + 1,
                        !.prop = RetryStart(property_retries, PropertyPolicy)]
    /\ UNCHANGED notFetchVars

\* line 156: return properties_data, through both wrappers
fetch_return ==
    /\ fx.pc = "props"
    /\ fx.i > PropertyLimit(fx.map_result)
    /\ fx' = [fx EXCEPT !.pc = "returned",
                        !.inner = RetryOn(fx.inner, <<"return", "result">>, 0),
                        !.outer = RetryOn(fx.outer, <<"return", "result">>, 0)]
    /\ UNCHANGED notFetchVars

NextFetch ==
    \/ fetch_outer_call \/ fetch_for_sale \/ fetch_inner_wake
    \/ fetch_inner_raise \/ fetch_outer_wake \/ fetch_outer_raise
    \/ fetch_detail \/ fetch_collect \/ fetch_return

(***************************************************************************)
(* start(), stop() and _run_scheduler() of one ScraperScheduler: the timer *)
(* loops as threads of their own, with the calls made one after the other  *)
(* by one caller.  join(timeout=5) outlasts the time.sleep(1) of the loop  *)
(* and times out only while the loop is inside schedule.run_pending().     *)
(***************************************************************************)
TimerThreads == 1 .. MaxThreads

\* the timer loops that have been started and have not ended
AliveTimers(th) == {t \in TimerThreads : th[t] \in {"check", "pending", "sleep"}}

\* join(timeout=5) of stop() returns: the thread has ended, or it is still
\* inside run_pending() when the 5 seconds are over
JoinReturns(pc) == pc \in {"dead", "pending"}

TimerStart ==
    [is_running |-> FALSE, scheduler_thread |-> NoThread,
     th |-> [t \in TimerThreads |-> "unborn"], caller |-> "idle", n |-> 0]

TimerInit == tm = TimerStart

\* start(), lines 50-59
start_call ==
    /\ tm.caller = "idle"
    /\ tm.n < MaxTimerCalls
    /\ IF tm.is_running
       THEN tm' = [tm EXCEPT !.n = @ + 1]
       ELSE \E t \in TimerThreads :
               /\ tm.th[t] = "unborn"
               /\ \A u \in TimerThreads : tm.th[u] = "unborn" => t <= u
               /\ tm' = [tm EXCEPT !.is_running = TRUE,
                                   !.scheduler_thread = t,
                                   !.th[t] = "check", !.n = @ + 1]
    /\ UNCHANGED notTimerVars

\* stop(), lines 63-65: the flag is cleared and join() is entered
stop_call ==
    /\ tm.caller = "idle"
    /\ tm.n < MaxTimerCalls
    /\ tm' = [tm EXCEPT !.is_running = FALSE, !.n = @ + 1,
                        !.caller = IF tm.scheduler_thread # NoThread
                                   THEN "joining" ELSE "idle"]
    /\ UNCHANGED notTimerVars

\* stop(), lines 65-66: join(timeout=5) returns and stop() with it
stop_join ==
    /\ tm.caller = "joining"
    /\ JoinReturns(tm.th[tm.scheduler_thread])
    /\ tm' = [tm EXCEPT !.caller = "idle"]
    /\ UNCHANGED notTimerVars

\* _run_scheduler(), line 70: while self.is_running
run_scheduler_check(t) ==
    /\ tm.th[t] = "check"
    /\ tm' = [tm EXCEPT !.th[t] = IF tm.is_running THEN "pending" ELSE "dead"]
    /\ UNCHANGED notTimerVars

\* _run_scheduler(), lines 72-76: run_pending() returns or raises, and the
\* loop sleeps
run_scheduler_pending(t) ==
    /\ tm.th[t] = "pending"
    /\ tm' = [tm EXCEPT !.th[t] = "sleep"]
    /\ UNCHANGED notTimerVars

\* _run_scheduler(): time.sleep() returns
run_scheduler_wake(t) ==
    /\ tm.th[t] = "sleep"
    /\ tm' = [tm EXCEPT !.th[t] = "check"]
    /\ UNCHANGED notTimerVars

NextTimer ==
    \/ start_call \/ stop_call \/ stop_join
    \/ \E t \in TimerThreads :
          run_scheduler_check(t) \/ run_scheduler_pending(t)
            \/ run_scheduler_wake(t)

(***************************************************************************)
(* main() of get_listing_and_agent.py, lines 270-275: the executor that    *)
(* runs process_search_with_retry for the configurations.                  *)
(***************************************************************************)
\* the values of scraper_configs.max_concurrent_workers looked at: the
\* default and two below it
ConfiguredWorkers == {1, 2, 5}

\* line 271: max_workers = min(5, len(search_configs), 10)
MaxWorkers(search_configs) == Min(Min(5, Cardinality(search_configs)), 10)

\* the configurations whose fetch a worker thread is running
Fetching(futures) == {c \in DOMAIN futures : futures[c] = "running"}

\* lines 274-275: the executor is created and every configuration submitted
PoolStart(w, n) ==
    [max_concurrent_workers |-> w, max_workers |-> MaxWorkers(1 .. n),
     futures |-> [c \in 1 .. n |-> "queued"]]

PoolInit ==
    \E w \in ConfiguredWorkers : \E n \in 1 .. MaxConfigs : pl = PoolStart(w, n)

PoolOff == pl = PoolStart(5, 1)

\* a worker thread of the executor takes a submitted configuration; the
\* executor has at most max_workers threads
pool_fetch_begins(c) ==
    /\ c \in DOMAIN pl.futures
    /\ pl.futures[c] = "queued"
    /\ Cardinality(Fetching(pl.futures)) < pl.max_workers
    /\ pl' = [pl EXCEPT !.futures[c] = "running"]
    /\ UNCHANGED notPoolVars

\* process_search_with_retry returns or raises: the future is done
pool_fetch_ends(c) ==
    /\ c \in DOMAIN pl.futures
    /\ pl.futures[c] = "running"
    /\ pl' = [pl EXCEPT !.futures[c] = "done"]
    /\ UNCHANGED notPoolVars

NextPool ==
    \E c \in 1 .. MaxConfigs : pool_fetch_begins(c) \/ pool_fetch_ends(c)

(***************************************************************************)
(* The specifications.                                                     *)
(***************************************************************************)
InitRetry ==
    /\ RetryInit /\ SchedOff /\ AppInit /\ RunOff /\ AttrOff /\ CtlOff
    /\ StatusInit /\ NotifyInit /\ FetchInit /\ TimerInit /\ PoolOff
SpecRetry == InitRetry /\ [][NextRetry]_vars

InitSched ==
    /\ SchedInit /\ RetryOff /\ AppInit /\ RunOff /\ AttrOff /\ CtlOff
    /\ StatusInit /\ NotifyInit /\ FetchInit /\ TimerInit /\ PoolOff
SpecSched == InitSched /\ [][NextSched]_vars

InitApp ==
    /\ AppInit /\ RetryOff /\ SchedOff /\ RunOff /\ AttrOff /\ CtlOff
    /\ StatusInit /\ NotifyInit /\ FetchInit /\ TimerInit /\ PoolOff
SpecApp == InitApp /\ [][NextApp]_vars

\* one run of main()
Init ==
    /\ RunInit /\ RetryOff /\ SchedOff /\ AppInit /\ AttrOff /\ CtlOff
    /\ StatusInit /\ NotifyInit /\ FetchInit /\ TimerInit /\ PoolOff
Spec == Init /\ [][NextRun]_vars

\* any sequence of calls on one ScraperLogger
InitLogger ==
    /\ RunOff /\ RetryOff /\ SchedOff /\ AppInit /\ AttrOff /\ CtlOff
    /\ StatusInit /\ NotifyInit /\ FetchInit /\ TimerInit /\ PoolOff
SpecLogger == InitLogger /\ [][NextLogger]_vars

\* one call of add_property on any listing detail
InitAttr ==
    /\ AttrInit /\ RetryOff /\ SchedOff /\ AppInit /\ RunOff /\ CtlOff
    /\ StatusInit /\ NotifyInit /\ FetchInit /\ TimerInit /\ PoolOff
SpecAttr == InitAttr /\ [][NextAttr]_vars

\* start(), stop() and update_config() on one scheduler
InitCtl ==
    /\ CtlInit /\ RetryOff /\ AppInit /\ RunOff /\ AttrOff /\ StatusInit
    /\ NotifyInit /\ FetchInit /\ TimerInit /\ PoolOff
SpecCtl == InitCtl /\ [][NextCtl]_vars

\* get_status() next to run_now() calls and run completions
InitStatus ==
    /\ SchedInit /\ StatusInit /\ RetryOff /\ AppInit /\ RunOff /\ AttrOff
    /\ CtlOff /\ NotifyInit /\ FetchInit /\ TimerInit /\ PoolOff
SpecStatus == InitStatus /\ [][NextStatus]_vars

\* one campaign of send_messages_to_agents
InitNotify ==
    /\ NotifyInit /\ RetryOff /\ SchedOff /\ AppInit /\ RunOff /\ AttrOff
    /\ FetchInit /\ CtlOff /\ StatusInit /\ TimerInit /\ PoolOff
SpecNotify == InitNotify /\ [][NextNotify]_vars

\* the fetch of one configuration
InitFetch ==
    /\ FetchInit /\ RetryOff /\ SchedOff /\ AppInit /\ RunOff /\ AttrOff
    /\ CtlOff /\ StatusInit /\ NotifyInit /\ TimerInit /\ PoolOff
SpecFetch == InitFetch /\ [][NextFetch]_vars

\* start() and stop() calls on one scheduler and its timer loops
InitTimer ==
    /\ TimerInit /\ RetryOff /\ SchedOff /\ AppInit /\ RunOff /\ AttrOff
    /\ CtlOff /\ StatusInit /\ NotifyInit /\ FetchInit /\ PoolOff
SpecTimer == InitTimer /\ [][NextTimer]_vars

\* the executor of main() with its configurations
InitPool ==
    /\ PoolInit /\ RetryOff /\ SchedOff /\ AppInit /\ RunOff /\ AttrOff
    /\ CtlOff /\ StatusInit /\ NotifyInit /\ FetchInit /\ TimerInit
SpecPool == InitPool /\ [][NextPool]_vars

(***************************************************************************)
(* C4                                                                      *)
(***************************************************************************)
AllFailed(tr) == \A i \in DOMAIN tr : tr[i][1] = "exc"

\* C4: retry termination.  For max_retries >= 0: while every invocation
\* has failed the operation has been invoked at most max_retries + 1 times;
\* the wrapper raises only after exactly max_retries + 1 failed invocations
\* and raises the exception of the last one; it returns only the value of
\* an invocation k <= max_retries + 1 that succeeded after k - 1 failures,
\* and invokes nothing after it; after max_retries + 1 failures it is over.
RetryTermination ==
    rt.max_retries >= 0 =>
        /\ Len(rtTrace) <= rt.max_retries + 1
        /\ rt.state = "raised" =>
              /\ AllFailed(rtTrace)
              /\ Len(rtTrace) = rt.max_retries + 1
              /\ rt.result = rtTrace[Len(rtTrace)][2]
        /\ rt.state = "returned" =>
              /\ rtTrace[Len(rtTrace)] = <<"ok", rt.result>>
              /\ AllFailed(SubSeq(rtTrace, 1, Len(rtTrace) - 1))
        /\ (AllFailed(rtTrace) /\ Len(rtTrace) = rt.max_retries + 1) =>
              rt.state = "raised"
        /\ rt.state \in {"loop", "sleep"} => AllFailed(rtTrace)
        /\ rt.state # "tail"

\* an always-failing operation under max_retries = 3 has been invoked four
\* times, the wrapper has raised, and the last two failures differ
RetryExhaustedWitness ==
    /\ rt.max_retries = search_retries
    /\ rt.state = "raised"
    /\ Len(rtTrace) = search_retries + 1
    /\ rtTrace[Len(rtTrace)][2] # rtTrace[Len(rtTrace) - 1][2]

(***************************************************************************)
(* C1, C2                                                                  *)
(***************************************************************************)
\* C1: at most one scraper run is in flight at any time: no two executor
\* threads are alive together.
AtMostOneRunInFlight == Cardinality(AliveJobs) <= 1

\* C2: a run_now() call during which one run stays in flight returns the
\* 'already running' failure and starts nothing; a run_now() call during
\* which no run of another caller is in flight starts exactly one executor
\* and returns success.
RunNowContract ==
    \A t \in Req :
        rn[t].pc = "returned" =>
            /\ (rn[t].busy # {}) =>
                  (rn[t].result = "already_running" /\ rn[t].started = {})
            /\ rn[t].quiet =>
                  (rn[t].result = "success" /\ Cardinality(rn[t].started) = 1)

(***************************************************************************)
(* C3                                                                      *)
(***************************************************************************)
\* C3: a scheduled timer tick that fires while a run is in flight is
\* dropped: no execution is started by a tick while a run that was in
\* flight when the tick fired is still in flight.
TickDroppedWhileInFlight == WorkerInFlight => worker.busy = {}

(***************************************************************************)
(* C5                                                                      *)
(***************************************************************************)
\* C5: replace atomicity on success.  When save_search_to_database() has
\* returned a positive count for the non-empty list of search term T, the
\* committed rows of T are exactly the rows of the new list, one row for
\* each item, the count is the length of the list, and no row T had before
\* is left.
ReplaceAtomicOnSuccess ==
    (m.pc = "after_save" /\ m.saved_count > 0) =>
        /\ RowsOf(db, m.cur) = {NewRow(m.cur, i) : i \in 1 .. Len(m.props)}
        /\ m.saved_count = Len(m.props)
        /\ \A r \in RowsOf(db, m.cur) : r.gen = "new"

\* a term that had rows has been replaced by a list of two
ReplacedExistingWitness ==
    /\ m.pc = "after_save"
    /\ m.saved_count = 2
    /\ m.existing
    /\ Cardinality(RowsOf(db, m.cur)) = 2

(***************************************************************************)
(* C6                                                                      *)
(***************************************************************************)
\* C6: insert-failure outcome.  Once the insert or commit phase of the
\* replacement of search term T has failed, the store holds no row of T,
\* now and after every later commit of the session, and the count saved
\* for T is 0.
InsertFailureLeavesNothing ==
    \A T \in h.insert_failed :
        /\ RowsOf(db, T) = {}
        /\ h.saved_for[T] = 0

(***************************************************************************)
(* C7                                                                      *)
(***************************************************************************)
\* C7: the execution log is finalized exactly once.  Once the status of the
\* row is terminal, no step of the run changes the status, the end_time or
\* the error_message again (in a run none of whose log writes has failed).
LogFinalizedOnce ==
    [][(log.status \in Terminal /\ ~h'.log_write_failed) =>
          /\ log'.status = log.status
          /\ log'.end_time = log.end_time
          /\ log'.error_message = log.error_message]_vars

(***************************************************************************)
(* C8                                                                      *)
(***************************************************************************)
\* C8: in every state of an execution log row, end_time is null if and
\* only if status is 'running'.
EndTimeNullIffRunning ==
    log.status # "absent" => (log.end_time = NoTime <=> log.status = "running")

\* a row that was finalized, and finalized again as cancelled
FinalizedTwiceWitness ==
    /\ log.status = "cancelled"
    /\ log.end_time > log.start_time + 1
    /\ log.log_file_path # None

(***************************************************************************)
(* C9                                                                      *)
(***************************************************************************)
\* C9: no active configurations.  When load_search_configs() has returned
\* an empty list and main() has returned, the execution log is 'completed',
\* its end_time is set and its four counters are 0 (in a run none of whose
\* log writes has failed).
NoActiveConfigsCompleted ==
    (m.pc = "done" /\ m.configs = {} /\ ~h.log_write_failed) =>
        /\ log.status = "completed"
        /\ log.end_time # NoTime
        /\ log.total_searches = 0
        /\ log.successful_searches = 0
        /\ log.total_properties = 0
        /\ log.properties_saved = 0

(***************************************************************************)
(* C10                                                                     *)
(***************************************************************************)
\* C10: every run that created an execution log leaves it terminal.  When
\* the run is over, because main() returned, raised, or its process was
\* killed on the scheduler's timeout, the status of its log is 'completed',
\* 'failed' or 'cancelled' (in a run none of whose log writes has failed).
EveryRunFinalized ==
    (m.pc \in {"done", "raised", "killed"} /\ ~h.log_write_failed) =>
        log.status \in Terminal

PerConfigFailureIsolated ==
    (m.pc \in {"done", "raised"} /\ h.search_failed \cup h.insert_failed # {}) =>
        /\ m.todo = {}
        /\ log.status = "completed"
        /\ log.total_searches = Cardinality(m.configs)
        /\ log.successful_searches = Cardinality(m.successful_searches)
        /\ m.successful_searches \cap (h.search_failed \cup h.insert_failed) = {}

(***************************************************************************)
(* C13                                                                     *)
(***************************************************************************)
\* C13: happy path.  When the run is over that had exactly one active
\* configuration, whose search gave 3 summaries with no listing dropped and
\* whose 3 records were saved, the log shows total_searches = 1,
\* successful_searches = 1, total_properties = 3, properties_saved = 3 and
\* status 'completed'.
HappyPath ==
    (/\ m.pc \in {"done", "raised"}
     /\ Cardinality(m.configs) = 1
     /\ ~h.dropped
     /\ m.total_properties_found = 3
     /\ \E T \in m.configs : h.saved_for[T] = 3) =>
        /\ log.total_searches = 1
        /\ log.successful_searches = 1
        /\ log.total_properties = 3
        /\ log.properties_saved = 3
        /\ log.status = "completed"

(***************************************************************************)
(* C14                                                                     *)
(***************************************************************************)
\* C14: in every state of the execution log of a run, properties_saved is
\* at most total_properties, and there is a gap between the two only when a
\* listing was dropped.
SavedWithinFound ==
    log.status # "absent" =>
        /\ log.properties_saved <= log.total_properties
        /\ ~h.dropped => log.properties_saved = log.total_properties

(***************************************************************************)
(* C15                                                                     *)
(***************************************************************************)
\* the <k> of a key 'Attribution_<k>'
KeySuffix(key) == SubSeq(key, Len(AttributionPrefix) + 1, Len(key))

\* C15: when add_property has gone through a listing detail, the value of
\* every key 'Attribution_<k>' with <k> in the known-field table is in the
\* fixed attribution_* field of the table and <k> is not in the extra map,
\* and the value of every key whose <k> is not in the table is in the extra
\* map under <k>; no value is lost with the record.
AttributionFallback ==
    ap.pc \in {"added", "TypeError"} =>
        \A i \in 1 .. Len(ap.property_data) :
            LET key == ap.property_data[i][1]
                value == ap.property_data[i][2]
                k == KeySuffix(key)
            IN  StartsWith(key, AttributionPrefix) =>
                  /\ ap.pc = "added"
                  /\ IF k \in DOMAIN field_mapping
                     THEN LET col == ColumnPrefix \o field_mapping[k] IN
                          /\ col \in DOMAIN ap.attribution_fields
                          /\ ap.attribution_fields[col] = ColumnValue(value)
                          /\ k \notin DOMAIN ap.extra_attribution
                     ELSE /\ k \in DOMAIN ap.extra_attribution
                          /\ ap.extra_attribution[k] = value

(***************************************************************************)
(* C16                                                                     *)
(***************************************************************************)
\* an update whose interval is outside 1..1440 or whose timeout is outside
\* 1..120
OutOfBounds(c) ==
    \/ /\ "schedule_interval_minutes" \in c.keys
       /\ c.schedule_interval_minutes \notin 1 .. 1440
    \/ /\ "timeout_minutes" \in c.keys
       /\ c.timeout_minutes \notin 1 .. 120

\* the step is a call of update_config
UpdateConfigCalled == ctl'.n = ctl.n + 1 /\ ctl'.call = "update_config"

\* C16: every call of update_config with an out-of-bounds interval or
\* timeout reports failure and changes neither the scraper_configs row, nor
\* the in-memory config, nor the registered jobs.
UpdateRejectsOutOfBounds ==
    [][(UpdateConfigCalled /\ OutOfBounds(ctl'.arg)) =>
          /\ ctl'.result = "False"
          /\ UNCHANGED <<dbcfg, config, timer, schedule_jobs>>]_vars

(***************************************************************************)
(* C17                                                                     *)
(***************************************************************************)
\* the row and the config hold every value of the update
HoldsNewValues(cfg, c) ==
    /\ "is_enabled" \in c.keys => cfg.is_enabled = c.is_enabled
    /\ "schedule_interval_minutes" \in c.keys =>
          cfg.schedule_interval_minutes = c.schedule_interval_minutes
    /\ "timeout_minutes" \in c.keys => cfg.timeout_minutes = c.timeout_minutes

\* C17: every call of update_config with in-bounds values whose write of the
\* row is committed returns success; afterwards the row and the in-memory
\* config hold the new values, an enabled scheduler has its job registered
\* at the new interval, and when the interval was given the row's
\* next_scheduled_run is the time of the call (or the last scheduled run)
\* plus the new interval.
ValidUpdateApplied ==
    [][(UpdateConfigCalled /\ ~OutOfBounds(ctl'.arg) /\ ctl'.committed) =>
          /\ ctl'.result = "True"
          /\ HoldsNewValues(dbcfg', ctl'.arg)
          /\ HoldsNewValues(config', ctl'.arg)
          /\ config'.is_enabled =>
                \E i \in 1 .. Len(timer') :
                    timer'[i] = EveryMinutes(config'.schedule_interval_minutes)
          /\ (dbcfg'.is_enabled /\ "schedule_interval_minutes" \in ctl'.arg.keys) =>
                \/ dbcfg'.next_scheduled_run =
                      clock + dbcfg'.schedule_interval_minutes
                \/ /\ dbcfg'.last_scheduled_run # NoTime
                   /\ dbcfg'.next_scheduled_run =
                         dbcfg'.last_scheduled_run + dbcfg'.schedule_interval_minutes]_vars

(***************************************************************************)
(* C18                                                                     *)
(***************************************************************************)
\* C18: a call of start() on a scheduler that is running changes nothing: not
\* is_running, not the timer-loop thread, not the registered jobs, not the
\* configuration; it creates no thread and reports 'already running'.
StartIdempotent ==
    [][(ctl'.n = ctl.n + 1 /\ ctl'.call = "start" /\ is_running) =>
          /\ UNCHANGED <<schedVars, config, timer>>
          /\ ctl'.threads = ctl.threads
          /\ ctl'.result = "already_running"]_vars

\* start() has been called on the scheduler it had started
StartedTwiceWitness ==
    /\ ctl.n = 2 /\ ctl.call = "start" /\ ctl.result = "already_running"
    /\ ctl.threads = 1 /\ is_running /\ scheduler_thread = 1

(***************************************************************************)
(* C19                                                                     *)
(***************************************************************************)
\* C19: whatever run_now() calls and run completions get_status() is
\* interleaved with, what it returns is the status and never the error
\* fallback, and its in-flight flag is true when an executor was alive at
\* the moment the flag was read.
StatusSafe ==
    gs.pc = "returned" =>
        /\ gs.status.error = None
        /\ gs.alive # {} => gs.status.current_job_running

(***************************************************************************)
(* C20                                                                     *)
(***************************************************************************)
\* the step is the completion of a run: an executor thread ends
RunCompletes == \E j \in JobIds : job[j] = "alive" /\ job'[j] = "dead"

\* C20: every step in which a run completes, whoever started it, sets the
\* row's next_scheduled_run of an enabled scheduler to the time of completion
\* plus the interval, and no other step changes next_scheduled_run.
NextRunAtCompletion ==
    [][/\ (RunCompletes /\ dbcfg.is_enabled) =>
             dbcfg'.next_scheduled_run = clock + dbcfg.schedule_interval_minutes
       /\ dbcfg'.next_scheduled_run # dbcfg.next_scheduled_run => RunCompletes]_vars

(***************************************************************************)
(* C21                                                                     *)
(***************************************************************************)
\* how often a number was handed to the sender
TimesHanded(phone) ==
    Cardinality({i \in 1 .. Len(nf.handed) : nf.handed[i] = phone})

\* C21: when a campaign is over, every valid normalized number found in the
\* properties was handed to the sender exactly once and no other number
\* was, and successful_sends + failed_sends = total_agents.
NotifierObligation ==
    nf.pc = "done" =>
        /\ \A phone \in nf.found : TimesHanded(phone) = 1
        /\ \A i \in 1 .. Len(nf.handed) : nf.handed[i] \in nf.found
        /\ nf.successful_sends + nf.failed_sends = nf.total_agents

(***************************************************************************)
(* C22                                                                     *)
(***************************************************************************)
\* C22: a summary whose detail fetch failed and whose record was not
\* contributed has had property_retries + 1 invocations of its detail
\* fetch; in particular a detail fetch that fails once is invoked again.
DetailFetchRetried ==
    \A k \in 1 .. MaxProps :
        (k < fx.i /\ k \in fx.detail_failed) =>
            \/ \E n \in 1 .. Len(fx.properties_data) : fx.properties_data[n] = k
            \/ fx.detail_calls[k] = property_retries + 1

(***************************************************************************)
(* C24                                                                     *)
(***************************************************************************)
\* C24: while pyzill.for_sale() has failed at every call of the fetch of
\* one configuration, it has been called at most search_retries + 1 times.
SingleRetryLayer ==
    fx.for_sale_failed = fx.for_sale_calls =>
        fx.for_sale_calls <= search_retries + 1

(***************************************************************************)
(* C26                                                                     *)
(***************************************************************************)
\* C26: whenever main() is about to handle the next configuration's result
\* and some configuration has finished, the counters of the log row cover
\* every configuration finished so far: total_searches is at least their
\* number, and the other three are the totals main() has at that point.
IncrementalProgress ==
    (m.pc = "pool" /\ m.todo # m.configs) =>
        /\ log.total_searches >= Cardinality(m.configs \ m.todo)
        /\ log.successful_searches = Cardinality(m.successful_searches)
        /\ log.total_properties = m.total_properties_found
        /\ log.properties_saved = m.total_properties_saved

(***************************************************************************)
(* C23                                                                     *)
(***************************************************************************)
\* the rows save_search_to_database() adds for n properties of term T
NewRows(T, n) == {NewRow(T, i) : i \in 1 .. n}

NoRecordsStoreUntouched ==
    [][\A T \in h'.search_failed \cup h'.no_records :
          /\ RowsOf(db', T) = RowsOf(db, T)
          /\ RowsOf(pending', T) = {}
          /\ h'.saved_for[T] = 0]_vars

\* a term with stored rows has been refetched with no record, while the
\* other term was replaced
NoRecordsWitness ==
    \E T \in h.no_records : \E U \in Terms :
        /\ RowsOf(db, T) # {}
        /\ h.saved_for[U] > 0
        /\ m.pc = "done"

(***************************************************************************)
(* C29                                                                     *)
(***************************************************************************)
\* C29: no step of the pass of one configuration changes the stored rows of
\* another search term, and the rows a step stores for the term of the pass
\* are those of a save that returns a positive count.
ReplacementConfined ==
    [][m.cur # 0 =>
          /\ \A T \in Terms \ {m.cur} : RowsOf(db', T) = RowsOf(db, T)
          /\ RowsOf(db', m.cur) \ RowsOf(db, m.cur) # {} =>
                (m'.pc = "after_save" /\ m'.saved_count > 0)]_vars

(***************************************************************************)
(* C30                                                                     *)
(***************************************************************************)
\* the items of a listing detail whose key is an attribution key
AttributionItems(property_data) ==
    {i \in 1 .. Len(property_data) :
        StartsWith(property_data[i][1], AttributionPrefix)}

\* C30: add_property ends with the record added, and the fixed attribution
\* fields and the extra map together hold as many entries as the listing
\* detail has attribution keys: no key has taken the place of another.
AttributionLossless ==
    ap.pc \in {"added", "TypeError"} =>
        /\ ap.pc = "added"
        /\ Cardinality(DOMAIN ap.attribution_fields)
             + Cardinality(DOMAIN ap.extra_attribution)
           = Cardinality(AttributionItems(ap.property_data))

(***************************************************************************)
(* C28                                                                     *)
(***************************************************************************)
\* C28: whenever no call of start() or stop() is under way, at most one
\* timer loop of the scheduler is alive.
AtMostOneTimerLoop ==
    tm.caller = "idle" => Cardinality(AliveTimers(tm.th)) <= 1

(***************************************************************************)
(* C25                                                                     *)
(***************************************************************************)
\* C25: at every moment the number of configurations being fetched is at
\* most the configured max_concurrent_workers, and while fewer than that
\* many are being fetched a submitted configuration can be taken.
BoundedFanOut ==
    /\ Cardinality(Fetching(pl.futures)) <= pl.max_concurrent_workers
    /\ \A c \in DOMAIN pl.futures :
          (/\ pl.futures[c] = "queued"
           /\ Cardinality(Fetching(pl.futures)) < pl.max_concurrent_workers)
             => ENABLED pool_fetch_begins(c)

====
